---- MODULE Spec2Model ----
(***************************************************************************)
(* Model of the swucol card import pipeline and its SQLite-backed store:   *)
(* parseCardsCSV / cardCSVToName / importCards (cards/handler.go) and the  *)
(* cards table operations of package database.                             *)
(*                                                                         *)
(* A CSV stream is a byte prefix (where a UTF-8 BOM may sit) followed by   *)
(* lines; a line is the record encoding/csv would produce for it: its      *)
(* field count (0 for a blank line), whether its quoting is legal, and the *)
(* fields the import reads.  The cards table is the sequence of its rows   *)
(* in insertion order (id = position, AUTOINCREMENT without deletes).      *)
(* The image directory is a function from existing paths to a content tag. *)
(***************************************************************************)
EXTENDS Integers, Sequences, FiniteSets, TLC

\* ---------------------------------------------------------------- bounds
MaxRows == 2
MaxOwned == 1
MaxQueryRows == 2
MaxQueryOwned == 6
MaxMigrateRows == 2

\* ------------------------------------------------------ program constants
csvColumnCount == 13
csvHeaderSet == "Set"
utf8BOM == <<239, 187, 191>>
StatusNoContent == 204
StatusBadRequest == 400
StatusInternalServerError == 500

\* ------------------------------------------------------------ CSV rows
CardCSV(set, number, name, title, type, ownedCount, groupOwnedCount) ==
  [Set |-> set, CardNumber |-> number, CardName |-> name,
   CardTitle |-> title, CardType |-> type,
   OwnedCount |-> ownedCount, GroupOwnedCount |-> groupOwnedCount]

NoCard == CardCSV("", "", "", "", "", "", "")

\* The rows the environment can put in a CSV.  Two rows share a display
\* name with different set/number/type, one has a whitespace-only title,
\* one has neither name nor title.
RowPool ==
  { CardCSV("A", "B1", "Han", "Solo", "Unit", "3", "3"),
    CardCSV("C", "2", "Han", "Solo", "Leader", "0", "1"),
    CardCSV("AB", "1", "Rey", " ", "Base", "2", "5"),
    CardCSV("C", "2", "", "", "Unit", "1", "1") }

\* Strings made of white space only, within the alphabet of RowPool.
WhitespaceOnly == {"", " ", "  "}

TrimSpace(s) == IF s \in WhitespaceOnly THEN "" ELSE s

\* Variant: the title is compared with "" without trimming it.
cardCSVToNameUntrimmed(card) ==
  IF card.CardTitle = "" THEN card.CardName
  ELSE card.CardName \o ", " \o card.CardTitle

cardCSVToName(card) ==
  IF TrimSpace(card.CardTitle) = "" THEN card.CardName
  ELSE card.CardName \o ", " \o card.CardTitle

\* Mainboard classification handed to InsertCard: leader and base cards
\* are not mainboard cards.
IsMainboard(card) == card.CardType \notin {"Leader", "Base"}

\* ------------------------------------------------------------ CSV streams
Line(nf, quoteOK, first, card) ==
  [nf |-> nf, quoteOK |-> quoteOK, first |-> first, card |-> card]

HeaderLine(nf, first) == Line(nf, TRUE, first, NoCard)
OkLine(card) == Line(csvColumnCount, TRUE, card.Set, card)
ShortLine == Line(csvColumnCount - 1, TRUE, "A", NoCard)
QuoteLine == Line(csvColumnCount, FALSE, "A", NoCard)
BlankLine == Line(0, TRUE, "", NoCard)

Prefixes == {<<>>, utf8BOM}
HeaderLines ==
  { HeaderLine(csvColumnCount, csvHeaderSet),
    HeaderLine(csvColumnCount - 1, csvHeaderSet),
    HeaderLine(csvColumnCount, "Name") }
DataLines == {OkLine(c) : c \in RowPool} \cup {ShortLine, QuoteLine, BlankLine}

SeqsUpTo(S, n) == UNION {[1..k -> S] : k \in 0..n}

\* Every stream has a prefix and either no line at all or a header line
\* followed by at most MaxRows data lines.
Streams ==
  {[pre |-> p, lines |-> <<>>] : p \in Prefixes}
  \cup {[pre |-> p, lines |-> <<h>> \o d] :
          p \in Prefixes, h \in HeaderLines, d \in SeqsUpTo(DataLines, MaxRows)}

\* The first three bytes of the stream: the prefix, then text bytes (a line
\* of text is at least three bytes long and holds no BOM byte).
PeekBOM(stream) ==
  LET all == stream.pre \o (IF stream.lines = <<>> THEN <<>>
                            ELSE <<83, 83, 83>>)
  IN IF Len(all) >= Len(utf8BOM) THEN SubSeq(all, 1, Len(utf8BOM)) ELSE <<>>

\* Variant: the stream is handed to the CSV reader as it came.
StripBOMNever(stream) == stream.pre

\* bufio Peek + Discard: the bytes of the prefix left after the BOM step.
StripBOM(stream) ==
  IF PeekBOM(stream) = utf8BOM
  THEN SubSeq(stream.pre, Len(utf8BOM) + 1, Len(stream.pre))
  ELSE stream.pre

\* encoding/csv skips blank lines.
RECURSIVE SkipBlank(_, _)
SkipBlank(lines, i) ==
  IF i <= Len(lines) /\ lines[i].nf = 0 THEN SkipBlank(lines, i + 1) ELSE i

ParseOK(cards) == [err |-> "", cards |-> cards]
ParseErr(msg) == [err |-> msg, cards |-> <<>>]

\* Variant: a malformed record is dropped and reading goes on.
RECURSIVE ReadRecordsLenient(_, _, _, _)
ReadRecordsLenient(lines, i, fieldsPerRecord, acc) ==
  LET j == SkipBlank(lines, i) IN
  IF j > Len(lines) THEN ParseOK(acc)
  ELSE IF ~lines[j].quoteOK \/ lines[j].nf # fieldsPerRecord
       THEN ReadRecordsLenient(lines, j + 1, fieldsPerRecord, acc)
       ELSE ReadRecordsLenient(lines, j + 1, fieldsPerRecord,
                               Append(acc, lines[j].card))

\* The record loop of parseCardsCSV; fieldsPerRecord is the field count of
\* the first record read (csv.Reader.FieldsPerRecord = 0).
RECURSIVE ReadRecords(_, _, _, _)
ReadRecords(lines, i, fieldsPerRecord, acc) ==
  LET j == SkipBlank(lines, i) IN
  IF j > Len(lines) THEN ParseOK(acc)
  ELSE IF ~lines[j].quoteOK \/ lines[j].nf # fieldsPerRecord
       THEN ParseErr("read CSV record")
       ELSE ReadRecords(lines, j + 1, fieldsPerRecord, Append(acc, lines[j].card))

\* Variant: only the field count of the header is checked.
parseCardsCSVNoFirstFieldCheck(stream) ==
  LET junk == StripBOM(stream)
      h == SkipBlank(stream.lines, 1)
  IN IF h > Len(stream.lines)
     THEN IF junk = <<>> THEN ParseErr("read CSV header")
          ELSE ParseErr("CSV header does not match expected format")
     ELSE LET header == stream.lines[h] IN
          IF ~header.quoteOK THEN ParseErr("read CSV header")
          ELSE IF header.nf # csvColumnCount
               THEN ParseErr("CSV header does not match expected format")
               ELSE ReadRecords(stream.lines, h + 1, header.nf, <<>>)

parseCardsCSV(stream) ==
  LET junk == StripBOM(stream)
      h == SkipBlank(stream.lines, 1)
  IN IF h > Len(stream.lines)
     THEN IF junk = <<>> THEN ParseErr("read CSV header")
          ELSE ParseErr("CSV header does not match expected format")
     ELSE LET header == stream.lines[h] IN
          IF ~header.quoteOK THEN ParseErr("read CSV header")
          ELSE IF header.nf # csvColumnCount
                  \/ junk # <<>> \/ header.first # csvHeaderSet
               THEN ParseErr("CSV header does not match expected format")
               ELSE ReadRecords(stream.lines, h + 1, header.nf, <<>>)

\* ------------------------------------------------------------ image paths
ErrPath == "<error>"

buildImageURL(imageBaseURL, set, cardNumber) ==
  IF imageBaseURL = "" \/ set = "" \/ cardNumber = "" THEN ErrPath
  ELSE imageBaseURL \o "/" \o set \o "/" \o cardNumber \o ".png"

buildImageFilePath(imagesDir, set, cardNumber) ==
  IF imagesDir = "" \/ set = "" \/ cardNumber = "" THEN ErrPath
  ELSE imagesDir \o "/" \o set \o cardNumber \o ".png"

\* What one call of downloadCardImage can end in.
DownloadOutcomes ==
  {"ok", "get failed", "status not 200", "mkdir failed", "create failed",
   "copy failed"}

\* The file system after downloadCardImage(url, destPath) ended in outcome:
\* os.Create leaves a file behind even when the copy into it fails.
downloadCardImage(fs, destPath, outcome) ==
  IF outcome = "ok"
  THEN [p \in DOMAIN fs \cup {destPath} |-> IF p = destPath THEN "image" ELSE fs[p]]
  ELSE IF outcome = "copy failed"
       THEN [p \in DOMAIN fs \cup {destPath} |->
               IF p = destPath THEN "partial" ELSE fs[p]]
       ELSE fs

\* Variant: a file that is there is reported as missing.
osStatNeverFinds(fs, filePath, statFails) ==
  IF statFails THEN "error" ELSE "not exist"

\* Variant: any failure of os.Stat is read as "the file is not there".
osStatErrorIsMissing(fs, filePath, statFails) ==
  IF ~statFails /\ filePath \in DOMAIN fs THEN "exists" ELSE "not exist"

\* os.Stat(filePath) as importCards reads it: statErr == nil, os.IsNotExist
\* (statErr), or another error.
osStat(fs, filePath, statFails) ==
  IF statFails THEN "error"
  ELSE IF filePath \in DOMAIN fs THEN "exists" ELSE "not exist"

\* Variant: the pause is made before every download, the first included.
rateLimitEveryDownload(downloadCount) == TRUE

\* if downloadCount > 0 { time.Sleep(imageDownloadInterval) }
rateLimit(downloadCount) == downloadCount > 0

\* Variant: the path is kept whether or not the download worked.
downloadedImagePathAlways(filePath, outcome) == filePath

\* if dlErr == nil { imagePath = filePath }
downloadedImagePath(filePath, outcome) ==
  IF outcome = "ok" THEN filePath ELSE ""

\* --------------------------------------------------------- the cards table
Card(id, name, image, owned, mainboard) ==
  [ID |-> id, Name |-> name, Image |-> image, Owned |-> owned,
   Mainboard |-> mainboard]

\* Variant: every record is written as a mainboard card.
mainboardIntAlwaysOne(mainboard) == 1

\* The mainboard column is an INTEGER: InsertCard writes 0 or 1.
mainboardInt(mainboard) == IF mainboard THEN 1 ELSE 0

\* rows.Scan into a models.Card: card.Mainboard = mainboardInt != 0.
ScanCard(row) == Card(row.ID, row.Name, row.Image, row.Owned, row.Mainboard # 0)

\* SELECT COUNT(*) FROM cards WHERE name = ?
CountByName(table, name) ==
  Cardinality({i \in 1..Len(table) : table[i].Name = name})

\* Variant: only the oldest record is compared with the name.
CardExistsByNameOldestOnly(table, name, fault) ==
  IF name = "" THEN [err |-> TRUE, exists |-> FALSE]
  ELSE IF fault THEN [err |-> TRUE, exists |-> FALSE]
       ELSE [err |-> FALSE, exists |-> Len(table) > 0 /\ table[1].Name = name]

\* Variant: the count is compared with 1 instead of 0.
CardExistsByNameOffByOne(table, name, fault) ==
  IF name = "" THEN [err |-> TRUE, exists |-> FALSE]
  ELSE IF fault THEN [err |-> TRUE, exists |-> FALSE]
       ELSE [err |-> FALSE, exists |-> CountByName(table, name) > 1]

\* Variant: the existence check reports every name as new.
CardExistsByNameNever(table, name, fault) ==
  IF name = "" THEN [err |-> TRUE, exists |-> FALSE]
  ELSE IF fault THEN [err |-> TRUE, exists |-> FALSE]
       ELSE [err |-> FALSE, exists |-> FALSE]

CardExistsByName(table, name, fault) ==
  IF name = "" THEN [err |-> TRUE, exists |-> FALSE]
  ELSE IF fault THEN [err |-> TRUE, exists |-> FALSE]
       ELSE [err |-> FALSE, exists |-> CountByName(table, name) > 0]

\* Variant: a re-imported card is reset to a freshly inserted one.
SkipExistingResetOwned(table, name) ==
  [i \in 1..Len(table) |->
     IF table[i].Name = name THEN [table[i] EXCEPT !.Owned = 0] ELSE table[i]]

\* What importCards does to the table for a name that is already in it:
\* it counts the row as skipped and goes on, without a statement.
SkipExisting(table, name) == table

\* Variant: the name is not looked at.
InsertCardAnyName(table, name, imagePath, mainboard, fault) ==
  IF fault THEN [err |-> TRUE, table |-> table]
  ELSE [err |-> FALSE,
        table |-> Append(table,
                    Card(Len(table) + 1, name, imagePath, 0,
                         mainboardInt(mainboard)))]

\* Variant: a new record starts with one owned copy.
InsertCardOwnedOne(table, name, imagePath, mainboard, fault) ==
  IF name = "" THEN [err |-> TRUE, table |-> table]
  ELSE IF fault THEN [err |-> TRUE, table |-> table]
       ELSE [err |-> FALSE,
             table |-> Append(table,
                         Card(Len(table) + 1, name, imagePath, 1,
                              mainboardInt(mainboard)))]

\* Variant: the name column carries a uniqueness constraint, so inserting a
\* name that is already there fails.
InsertCardUniqueName(table, name, imagePath, mainboard, fault) ==
  IF name = "" \/ fault \/ CountByName(table, name) > 0
  THEN [err |-> TRUE, table |-> table]
  ELSE [err |-> FALSE,
        table |-> Append(table, Card(Len(table) + 1, name, imagePath, 0,
                                     mainboardInt(mainboard)))]

\* Variant: the mainboard argument is dropped and the column default (1)
\* is stored.
InsertCardDefaultMainboard(table, name, imagePath, mainboard, fault) ==
  IF name = "" THEN [err |-> TRUE, table |-> table]
  ELSE IF fault THEN [err |-> TRUE, table |-> table]
       ELSE [err |-> FALSE,
             table |-> Append(table, Card(Len(table) + 1, name, imagePath, 0, 1))]

\* Variant: the INSERT is executed twice, so one call adds two records.
InsertCardTwice(table, name, imagePath, mainboard, fault) ==
  IF name = "" THEN [err |-> TRUE, table |-> table]
  ELSE IF fault THEN [err |-> TRUE, table |-> table]
       ELSE [err |-> FALSE,
             table |-> Append(Append(table,
                         Card(Len(table) + 1, name, imagePath, 0,
                              mainboardInt(mainboard))),
                         Card(Len(table) + 2, name, imagePath, 0,
                              mainboardInt(mainboard)))]

InsertCard(table, name, imagePath, mainboard, fault) ==
  IF name = "" THEN [err |-> TRUE, table |-> table]
  ELSE IF fault THEN [err |-> TRUE, table |-> table]
       ELSE [err |-> FALSE,
             table |-> Append(table,
                         Card(Len(table) + 1, name, imagePath, 0,
                              mainboardInt(mainboard)))]

ErrNone == "ok"
ErrInvalidID == "card id must be a positive integer"
ErrCardNotFound == "card not found"

\* UPDATE ... WHERE id = ? touches the row with that id, if there is one.
RowsAffected(table, id) == IF id \in 1..Len(table) THEN 1 ELSE 0

\* Variant: owned = owned + 2.
IncrementCardOwnedByTwo(table, id) ==
  IF id <= 0 THEN [err |-> ErrInvalidID, table |-> table]
  ELSE IF RowsAffected(table, id) = 0 THEN [err |-> ErrCardNotFound, table |-> table]
       ELSE [err |-> ErrNone, table |-> [table EXCEPT ![id].Owned = @ + 2]]

IncrementCardOwned(table, id) ==
  IF id <= 0 THEN [err |-> ErrInvalidID, table |-> table]
  ELSE IF RowsAffected(table, id) = 0 THEN [err |-> ErrCardNotFound, table |-> table]
       ELSE [err |-> ErrNone, table |-> [table EXCEPT ![id].Owned = @ + 1]]

Max(a, b) == IF a >= b THEN a ELSE b

\* Variant: owned = owned - 1 without the MAX(..., 0) clamp.
DecrementCardOwnedNoClamp(table, id) ==
  IF id <= 0 THEN [err |-> ErrInvalidID, table |-> table]
  ELSE IF RowsAffected(table, id) = 0 THEN [err |-> ErrCardNotFound, table |-> table]
       ELSE [err |-> ErrNone, table |-> [table EXCEPT ![id].Owned = @ - 1]]

DecrementCardOwned(table, id) ==
  IF id <= 0 THEN [err |-> ErrInvalidID, table |-> table]
  ELSE IF RowsAffected(table, id) = 0 THEN [err |-> ErrCardNotFound, table |-> table]
       ELSE [err |-> ErrNone, table |-> [table EXCEPT ![id].Owned = Max(@ - 1, 0)]]

\* ------------------------------------------------------------ the queries
MainboardMinimumOwned == 6
NonMainboardMinimumOwned == 3

\* The characters of the names and queries the model uses.
Chars(str) ==
  CASE str = "" -> <<>>
    [] str = "Han" -> <<"H", "a", "n">>
    [] str = "Rey" -> <<"R", "e", "y">>
    [] str = "R2" -> <<"R", "2">>
    [] str = "a" -> <<"a">>
    [] str = "HA" -> <<"H", "A">>
    [] str = "x" -> <<"x">>
    [] str = "_" -> <<"_">>
    [] str = "Han, Solo" -> <<"H", "a", "n", ",", " ", "S", "o", "l", "o">>
    [] str = "Leia" -> <<"L", "e", "i", "a">>

\* NOCASE folds the upper-case ASCII letters.
Lower(c) ==
  CASE c = "H" -> "h"
    [] c = "A" -> "a"
    [] c = "R" -> "r"
    [] c = "S" -> "s"
    [] c = "L" -> "l"
    [] OTHER -> c

\* SQLite's LIKE: % stands for any run of characters, _ for one character,
\* any other character for itself without regard to ASCII case.
RECURSIVE Like(_, _)
Like(text, pattern) ==
  IF pattern = <<>> THEN text = <<>>
  ELSE IF Head(pattern) = "%"
       THEN Like(text, Tail(pattern)) \/ (text # <<>> /\ Like(Tail(text), pattern))
       ELSE /\ text # <<>>
            /\ (Head(pattern) = "_" \/ Lower(Head(pattern)) = Lower(Head(text)))
            /\ Like(Tail(text), Tail(pattern))

\* WHERE name LIKE ? COLLATE NOCASE, with "%"+query+"%" as argument; the
\* statement built for an empty query has no such clause.
NameMatches(name, query) ==
  query = "" \/ Like(Chars(name), <<"%">> \o Chars(query) \o <<"%">>)

QueryOK(rows) == [err |-> "", cards |-> rows]
QueryErr(msg) == [err |-> msg, cards |-> <<>>]

Scanned(rows) == [i \in 1..Len(rows) |-> ScanCard(rows[i])]

\* Variant: a query without matching row ends like QueryRow does, in an
\* error.
SearchCardsNoRowsIsError(table, query, fault) ==
  LET Selected(row) == NameMatches(row.Name, query)
  IN IF fault \/ SelectSeq(table, Selected) = <<>> THEN QueryErr("search cards")
     ELSE QueryOK(Scanned(SelectSeq(table, Selected)))

SearchCards(table, query, fault) ==
  LET Selected(row) == NameMatches(row.Name, query)
  IN IF fault THEN QueryErr("search cards")
     ELSE QueryOK(Scanned(SelectSeq(table, Selected)))

\* Variant: both kinds of card are held to the mainboard minimum.
GetWishlistCardsOneMinimum(table, query, fault) ==
  LET Selected(row) ==
        /\ \/ row.Mainboard = 1 /\ row.Owned < MainboardMinimumOwned
           \/ row.Mainboard = 0 /\ row.Owned < MainboardMinimumOwned
        /\ NameMatches(row.Name, query)
  IN IF fault THEN QueryErr("get wishlist cards")
     ELSE QueryOK(Scanned(SelectSeq(table, Selected)))

\* Variant: owned <= ? in place of owned < ?.
GetWishlistCardsAtMinimum(table, query, fault) ==
  LET Selected(row) ==
        /\ \/ row.Mainboard = 1 /\ row.Owned <= MainboardMinimumOwned
           \/ row.Mainboard = 0 /\ row.Owned <= NonMainboardMinimumOwned
        /\ NameMatches(row.Name, query)
  IN IF fault THEN QueryErr("get wishlist cards")
     ELSE QueryOK(Scanned(SelectSeq(table, Selected)))

GetWishlistCards(table, query, fault) ==
  LET Selected(row) ==
        /\ \/ row.Mainboard = 1 /\ row.Owned < MainboardMinimumOwned
           \/ row.Mainboard = 0 /\ row.Owned < NonMainboardMinimumOwned
        /\ NameMatches(row.Name, query)
  IN IF fault THEN QueryErr("get wishlist cards")
     ELSE QueryOK(Scanned(SelectSeq(table, Selected)))

\* The wishlist entry of a card: the card and how many copies are missing.
WishlistCard(card) ==
  [Card |-> card,
   Deficit |-> (IF card.Mainboard THEN MainboardMinimumOwned
                ELSE NonMainboardMinimumOwned) - card.Owned]

\* Wishlist(query): the entries of the cards GetWishlistCards returns.
Wishlist(table, query, fault) ==
  LET res == GetWishlistCards(table, query, fault)
  IN [err |-> res.err,
      entries |-> [i \in 1..Len(res.cards) |-> WishlistCard(res.cards[i])]]

\* ------------------------------------------------------------- the schema
\* A schema says whether table cards exists and lists its columns, each with
\* the default its definition gives ("NULL" when it gives none).  A row has a
\* field for each column, named as the models.Card field it is scanned into.
Column(name, default) == [name |-> name, default |-> default]

NoSchema == [table |-> FALSE, columns |-> <<>>]

\* The columns of the CREATE TABLE statement.
CreatedColumns ==
  <<Column("id", "NULL"), Column("name", "NULL"), Column("image", "NULL"),
    Column("owned", 0)>>

CreatedSchema == [table |-> TRUE, columns |-> CreatedColumns]

MainboardDefinition == "INTEGER NOT NULL DEFAULT 1"

\* The DEFAULT clause of a column definition.
DefaultOf(columnDefinition) ==
  IF columnDefinition = "INTEGER NOT NULL DEFAULT 1" THEN 1
  ELSE IF columnDefinition = "INTEGER NOT NULL DEFAULT 0" THEN 0
  ELSE "NULL"

MigratedSchema ==
  [table |-> TRUE,
   columns |-> Append(CreatedColumns,
                      Column("mainboard", DefaultOf(MainboardDefinition)))]

FieldOf(columnName) ==
  CASE columnName = "id" -> "ID"
    [] columnName = "name" -> "Name"
    [] columnName = "image" -> "Image"
    [] columnName = "owned" -> "Owned"
    [] columnName = "mainboard" -> "Mainboard"

\* PRAGMA table_info(cards) and the scan for a column of that name.
HasColumn(sch, columnName) ==
  \E i \in 1..Len(sch.columns) : sch.columns[i].name = columnName

Database(sch, rows) == [schema |-> sch, rows |-> rows]

Executed(err, db, stmts) == [err |-> err, db |-> db, stmts |-> stmts]

\* Variant: CREATE TABLE without IF NOT EXISTS.
createCardsTableStrict(db, fault) ==
  IF fault \/ db.schema.table THEN Executed("create cards table", db, <<"create">>)
  ELSE Executed("", Database(CreatedSchema, <<>>), <<"create">>)

\* CREATE TABLE IF NOT EXISTS cards (id, name, image, owned)
createCardsTable(db, fault) ==
  IF fault THEN Executed("create cards table", db, <<"create">>)
  ELSE IF db.schema.table THEN Executed("", db, <<"create">>)
       ELSE Executed("", Database(CreatedSchema, <<>>), <<"create">>)

\* ALTER TABLE cards ADD COLUMN: fails on a missing table or a column that
\* is already there; every existing row reads the default in the new column.
AlterTableAddColumn(db, columnName, columnDefinition, fault) ==
  IF fault \/ ~db.schema.table \/ HasColumn(db.schema, columnName)
  THEN Executed("alter table", db, <<"alter">>)
  ELSE Executed("",
         Database([db.schema EXCEPT !.columns =
                     Append(@, Column(columnName, DefaultOf(columnDefinition)))],
                  [i \in 1..Len(db.rows) |->
                     (FieldOf(columnName) :> DefaultOf(columnDefinition))
                       @@ db.rows[i]]),
         <<"alter">>)

\* Variant: the column is added without looking whether it is there.
addColumnAlways(db, tableName, columnName, columnDefinition, fault) ==
  LET res == AlterTableAddColumn(db, columnName, columnDefinition, fault = "alter")
  IN Executed(res.err, res.db, <<"table_info">> \o res.stmts)

addColumnIfNotExists(db, tableName, columnName, columnDefinition, fault) ==
  IF tableName = "" THEN Executed("table name must not be empty", db, <<>>)
  ELSE IF columnName = "" THEN Executed("column name must not be empty", db, <<>>)
  ELSE IF columnDefinition = ""
       THEN Executed("column definition must not be empty", db, <<>>)
  ELSE IF fault = "table_info" THEN Executed("query table info", db, <<"table_info">>)
  ELSE IF HasColumn(db.schema, columnName) THEN Executed("", db, <<"table_info">>)
  ELSE LET res == AlterTableAddColumn(db, columnName, columnDefinition,
                                      fault = "alter")
       IN Executed(res.err, res.db, <<"table_info">> \o res.stmts)

\* Where a statement of RunMigrations can fail.
MigrationFaults == {"none", "create", "table_info", "alter"}

\* Variant: the mainboard column is added with DEFAULT 0.
RunMigrationsDefaultZero(db, fault) ==
  LET created == createCardsTable(db, fault = "create") IN
  IF created.err # "" THEN created
  ELSE LET added == addColumnIfNotExists(created.db, "cards", "mainboard",
                                         "INTEGER NOT NULL DEFAULT 0", fault)
       IN Executed(IF added.err # "" THEN "add mainboard column: " \o added.err
                   ELSE "",
                   added.db, created.stmts \o added.stmts)

RunMigrations(db, fault) ==
  LET created == createCardsTable(db, fault = "create") IN
  IF created.err # "" THEN created
  ELSE LET added == addColumnIfNotExists(created.db, "cards", "mainboard",
                                         MainboardDefinition, fault)
       IN Executed(IF added.err # "" THEN "add mainboard column: " \o added.err
                   ELSE "",
                   added.db, created.stmts \o added.stmts)

\* The InsertCard of the release before the mainboard column:
\* INSERT INTO cards (name, image, owned) VALUES (?, ?, 0).  A column the
\* statement does not name gets its default.
InsertCardWithoutMainboard(db, name, imagePath, fault) ==
  IF name = "" THEN [err |-> TRUE, db |-> db]
  ELSE IF fault \/ ~db.schema.table THEN [err |-> TRUE, db |-> db]
  ELSE LET given == [ID |-> Len(db.rows) + 1, Name |-> name, Image |-> imagePath,
                     Owned |-> 0]
           fields == {FieldOf(db.schema.columns[i].name) :
                        i \in 1..Len(db.schema.columns)}
           default(f) ==
             LET i == CHOOSE k \in 1..Len(db.schema.columns) :
                        FieldOf(db.schema.columns[k].name) = f
             IN db.schema.columns[i].default
       IN [err |-> FALSE,
           db |-> Database(db.schema,
                    Append(db.rows,
                      [f \in fields |->
                         IF f \in DOMAIN given THEN given[f] ELSE default(f)]))]

NoRecord == Card(0, "", "", 0, FALSE)

\* SELECT id, name, image, owned, mainboard FROM cards WHERE id = ?
GetCardByID(db, id) ==
  IF id <= 0 THEN [err |-> ErrInvalidID, card |-> NoRecord]
  ELSE IF ~db.schema.table \/ ~HasColumn(db.schema, "mainboard")
       THEN [err |-> "get card by id", card |-> NoRecord]
  ELSE IF id \notin 1..Len(db.rows) THEN [err |-> ErrCardNotFound, card |-> NoRecord]
  ELSE [err |-> ErrNone, card |-> ScanCard(db.rows[id])]

\* ------------------------------------------------------------------ state
VARIABLES
  cards,   \* the rows of the cards table
  files,   \* the image directory: existing path -> content tag
  proc,    \* per caller: the call it is in, and where in it
  schema   \* the database schema: whether table cards exists, its columns

vars == <<cards, files, proc, schema>>

Procs == DOMAIN proc

ImagesDirs == {"img", ""}
ImageBaseURLs == {"http://cdn", ""}

\* What is recorded about the stream handed to importCards.
HeaderMismatch(stream) ==
  stream.lines # <<>>
  /\ (stream.lines[1].nf # csvColumnCount \/ stream.lines[1].first # csvHeaderSet)
MalformedRow(line) == line.nf # 0 /\ (line.nf # csvColumnCount \/ ~line.quoteOK)
HasMalformedRow(stream) ==
  \E i \in 2..Len(stream.lines) : MalformedRow(stream.lines[i])
MalformedAfterOkRow(stream) ==
  \E i \in 2..Len(stream.lines) : \E j \in 2..(i - 1) :
    MalformedRow(stream.lines[i]) /\ stream.lines[j] \in {OkLine(c) : c \in RowPool}
HeaderOnly(stream) ==
  /\ stream.lines # <<>>
  /\ ~HeaderMismatch(stream)
  /\ \A i \in 2..Len(stream.lines) : stream.lines[i].nf = 0
StreamInfo(stream) ==
  [headerMismatch |-> HeaderMismatch(stream),
   malformedRow |-> HasMalformedRow(stream),
   malformedAfterOk |-> MalformedAfterOkRow(stream),
   headerOnly |-> HeaderOnly(stream),
   dataLines |-> IF stream.lines = <<>> THEN 0 ELSE Len(stream.lines) - 1]
NoInfo ==
  [headerMismatch |-> FALSE, malformedRow |-> FALSE, malformedAfterOk |-> FALSE,
   headerOnly |-> FALSE, dataLines |-> 0]

Idle ==
  [pc |-> "idle", op |-> "none", id |-> 0, err |-> ErrNone, imagesDir |-> "", imageBaseURL |-> "", rows |-> <<>>, idx |-> 0,
   seen |-> {}, name |-> "", filePath |-> "", imagePath |-> "",
   downloadCount |-> 0, insertedCount |-> 0, skippedDBCount |-> 0,
   skippedCSVCount |-> 0, statusCode |-> 0, message |-> "",
   info |-> NoInfo, again |-> FALSE, cardsBefore |-> <<>>, filesBefore |-> <<>>,
   existsCalls |-> 0, insertCalls |-> 0, statCalls |-> 0, waits |-> 0,
   fetches |-> 0, faults |-> 0, acq |-> "none"]

\* The image directory at start-up: each file the import can name is absent
\* or holds a complete image.
InitialFiles ==
  LET paths == {buildImageFilePath("img", c.Set, c.CardNumber) : c \in RowPool}
  IN UNION {[ps -> {"image"}] : ps \in SUBSET paths}

Init ==
  /\ cards = <<>>
  /\ files \in InitialFiles
  /\ proc = [p \in {1} |-> Idle]
  /\ schema = MigratedSchema

\* ------------------------------------------------------------ importCards
\* Variant: the loop goes on with the row after the next one.
NextRowSkipsOne(pr) ==
  IF pr.idx >= Len(pr.rows)
  THEN [pr EXCEPT !.pc = "done", !.statusCode = StatusNoContent]
  ELSE [pr EXCEPT !.pc = "check", !.idx = @ + 2]

\* End of the loop body: the next row, or the end of importCards.
NextRow(pr) ==
  IF pr.idx >= Len(pr.rows)
  THEN [pr EXCEPT !.pc = "done", !.statusCode = StatusNoContent]
  ELSE [pr EXCEPT !.pc = "check", !.idx = @ + 1]

\* Variant: the error is logged and the loop goes on with the next row.
FailedContinues(pr, code, msg) == NextRow(pr)

\* return &importError{statusCode, message}
Failed(pr, code, msg) ==
  [pr EXCEPT !.pc = "done", !.statusCode = code, !.message = msg]

\* Variant: a CSV without data rows is accepted.
RejectInputAcceptsEmpty(parsed) ==
  IF parsed.err # ""
  THEN [statusCode |-> StatusBadRequest, message |-> "invalid CSV: " \o parsed.err]
  ELSE [statusCode |-> 0, message |-> ""]

\* The two rejections importCards makes before its loop; statusCode 0 when
\* the parsed rows are accepted.
RejectInput(parsed) ==
  IF parsed.err # ""
  THEN [statusCode |-> StatusBadRequest, message |-> "invalid CSV: " \o parsed.err]
  ELSE IF Len(parsed.cards) = 0
       THEN [statusCode |-> StatusBadRequest, message |-> "CSV contains no card rows"]
       ELSE [statusCode |-> 0, message |-> ""]

\* importCards up to the loop: parse, reject, set up the counters.
Begin(p, stream, imagesDir, imageBaseURL, again) ==
  LET parsed == parseCardsCSV(stream)
      rejected == RejectInput(parsed)
      pr == [Idle EXCEPT !.op = "import",
                         !.imagesDir = imagesDir, !.imageBaseURL = imageBaseURL,
                         !.info = StreamInfo(stream), !.again = again,
                         !.cardsBefore = cards, !.filesBefore = files]
  IN /\ proc' = [proc EXCEPT ![p] =
           IF rejected.statusCode # 0
           THEN Failed(pr, rejected.statusCode, rejected.message)
           ELSE NextRow([pr EXCEPT !.rows = parsed.cards])]
     /\ UNCHANGED <<cards, files, schema>>

StartImport(p) ==
  /\ proc[p].pc = "idle"
  /\ \E stream \in Streams, imagesDir \in ImagesDirs, imageBaseURL \in ImageBaseURLs :
       Begin(p, stream, imagesDir, imageBaseURL, FALSE)

\* The CSV a caller sends to import the rows once more.
StreamOf(rows) ==
  [pre |-> <<>>,
   lines |-> <<HeaderLine(csvColumnCount, csvHeaderSet)>>
             \o [i \in 1..Len(rows) |-> OkLine(rows[i])]]

\* The same batch is imported again right after a successful import.
ImportAgain(p) ==
  /\ proc[p].pc = "done"
  /\ proc[p].op = "import"
  /\ proc[p].statusCode = StatusNoContent
  /\ ~proc[p].again
  /\ Begin(p, StreamOf(proc[p].rows), proc[p].imagesDir, proc[p].imageBaseURL, TRUE)

\* Loop head: the in-batch dedup and the existence check against the store.
CheckRow(p) ==
  LET pr == proc[p]
      name == cardCSVToName(pr.rows[pr.idx])
  IN /\ pr.pc = "check"
     /\ IF name \in pr.seen
        THEN /\ proc' = [proc EXCEPT ![p] =
                          NextRow([pr EXCEPT !.name = name, !.skippedCSVCount = @ + 1,
                                             !.acq = "none"])]
             /\ cards' = cards
        ELSE \E fault \in BOOLEAN :
               LET res == CardExistsByName(cards, name, fault)
                   q == [pr EXCEPT !.name = name, !.seen = @ \cup {name},
                                   !.existsCalls = @ + 1, !.acq = "none",
                                   !.faults = @ + (IF fault THEN 1 ELSE 0)]
               IN /\ proc' = [proc EXCEPT ![p] =
                       IF res.err
                       THEN Failed(q, StatusInternalServerError, "database error")
                       ELSE IF res.exists
                            THEN NextRow([q EXCEPT !.skippedDBCount = @ + 1])
                            ELSE [q EXCEPT !.pc = "stat", !.imagePath = "",
                                           !.filePath = ""]]
                  /\ cards' = IF ~res.err /\ res.exists
                              THEN SkipExisting(cards, name) ELSE cards
     /\ UNCHANGED <<files, schema>>

\* buildImageFilePath and os.Stat.
StatImage(p) ==
  LET pr == proc[p]
      row == pr.rows[pr.idx]
      filePath == buildImageFilePath(pr.imagesDir, row.Set, row.CardNumber)
  IN /\ pr.pc = "stat"
     /\ IF filePath = ErrPath
        THEN proc' = [proc EXCEPT ![p] =
                       [pr EXCEPT !.pc = "insert", !.acq = "no path"]]
        ELSE \E statFails \in BOOLEAN :
               LET q == [pr EXCEPT !.filePath = filePath, !.statCalls = @ + 1]
                   stat == osStat(files, filePath, statFails)
               IN proc' = [proc EXCEPT ![p] =
                    IF stat = "error" THEN [q EXCEPT !.pc = "insert", !.acq = "stat failed"]
                    ELSE IF stat = "exists"
                         THEN [q EXCEPT !.pc = "insert", !.imagePath = filePath,
                                        !.acq = "cached"]
                         ELSE IF rateLimit(q.downloadCount)
                              THEN [q EXCEPT !.pc = "wait"]
                              ELSE [q EXCEPT !.pc = "fetch"]]
     /\ UNCHANGED <<cards, files, schema>>

\* time.Sleep(imageDownloadInterval)
Wait(p) ==
  /\ proc[p].pc = "wait"
  /\ proc' = [proc EXCEPT ![p].pc = "fetch", ![p].waits = @ + 1]
  /\ UNCHANGED <<cards, files, schema>>

\* buildImageURL, downloadCardImage, downloadCount++.
Fetch(p) ==
  LET pr == proc[p]
      row == pr.rows[pr.idx]
      imageURL == buildImageURL(pr.imageBaseURL, row.Set, row.CardNumber)
  IN /\ pr.pc = "fetch"
     /\ IF imageURL = ErrPath
        THEN /\ proc' = [proc EXCEPT ![p] =
                          [pr EXCEPT !.pc = "insert", !.downloadCount = @ + 1,
                                     !.acq = "no url"]]
             /\ files' = files
        ELSE \E outcome \in DownloadOutcomes :
               /\ files' = downloadCardImage(files, pr.filePath, outcome)
               /\ proc' = [proc EXCEPT ![p] =
                    [pr EXCEPT !.pc = "insert", !.downloadCount = @ + 1,
                               !.fetches = @ + 1,
                               !.acq = IF outcome = "ok" THEN "downloaded"
                                       ELSE "download failed",
                               !.imagePath =
                                  downloadedImagePath(pr.filePath, outcome)]]
     /\ UNCHANGED <<cards, schema>>

\* db.InsertCard and the end of the loop body.
InsertRow(p) ==
  LET pr == proc[p]
      row == pr.rows[pr.idx]
  IN /\ pr.pc = "insert"
     /\ \E fault \in BOOLEAN :
          LET res == InsertCard(cards, pr.name, pr.imagePath, IsMainboard(row), fault)
              q == [pr EXCEPT !.insertCalls = @ + 1, !.acq = "none",
                              !.faults = @ + (IF fault THEN 1 ELSE 0)]
          IN /\ cards' = res.table
             /\ proc' = [proc EXCEPT ![p] =
                  IF res.err
                  THEN Failed(q, StatusInternalServerError, "database error")
                  ELSE NextRow([q EXCEPT !.insertedCount = @ + 1])]
     /\ UNCHANGED <<files, schema>>

\* The call has returned; the caller is free again.
Return(p) ==
  /\ proc[p].pc = "done"
  /\ proc' = [proc EXCEPT ![p] = Idle]
  /\ UNCHANGED <<cards, files, schema>>

\* ------------------------------------------------- owned count operations
Returned(p, op, id, err) ==
  [Idle EXCEPT !.pc = "done", !.op = op, !.id = id, !.err = err,
               !.cardsBefore = cards, !.filesBefore = files]

\* An increment request; the owned count is kept at or below max.
IncrementUpTo(p, max) ==
  /\ proc[p].pc = "idle"
  /\ \E id \in 0..(Len(cards) + 1) :
       LET res == IncrementCardOwned(cards, id)
       IN /\ (res.err = ErrNone => cards[id].Owned < max)
          /\ cards' = res.table
          /\ proc' = [proc EXCEPT ![p] = Returned(p, "increment", id, res.err)]
  /\ UNCHANGED <<files, schema>>

Increment(p) == IncrementUpTo(p, MaxOwned)

Decrement(p) ==
  /\ proc[p].pc = "idle"
  /\ \E id \in 0..(Len(cards) + 1) :
       LET res == DecrementCardOwned(cards, id)
       IN /\ cards' = res.table
          /\ proc' = [proc EXCEPT ![p] = Returned(p, "decrement", id, res.err)]
  /\ UNCHANGED <<files, schema>>

Next ==
  \/ \E p \in Procs : StartImport(p)
  \/ \E p \in Procs : ImportAgain(p)
  \/ \E p \in Procs : CheckRow(p)
  \/ \E p \in Procs : StatImage(p)
  \/ \E p \in Procs : Wait(p)
  \/ \E p \in Procs : Fetch(p)
  \/ \E p \in Procs : InsertRow(p)
  \/ \E p \in Procs : Return(p)
  \/ \E p \in Procs : Increment(p)
  \/ \E p \in Procs : Decrement(p)

Spec == Init /\ [][Next]_vars

\* ------------------------------------------------ two concurrent importers
\* Two HTTP requests run importCards at the same time against one store, each
\* once, with a well-formed CSV of named rows; their steps interleave. The
\* server runs without an image base URL, so every row passes through the
\* image step and none downloads.
ConcurrentBatches ==
  {b \in SeqsUpTo({c \in RowPool : cardCSVToName(c) # ""}, MaxRows) : Len(b) >= 1}

StartConcurrentImport(p) ==
  /\ proc[p].pc = "idle"
  /\ \E rows \in ConcurrentBatches :
       Begin(p, StreamOf(rows), "img", "", FALSE)

InitConc ==
  /\ cards = <<>>
  /\ files = <<>>
  /\ proc = [p \in {1, 2} |-> Idle]
  /\ schema = MigratedSchema

NextConc ==
  \/ \E p \in Procs : StartConcurrentImport(p)
  \/ \E p \in Procs : CheckRow(p)
  \/ \E p \in Procs : StatImage(p)
  \/ \E p \in Procs : Wait(p)
  \/ \E p \in Procs : Fetch(p)
  \/ \E p \in Procs : InsertRow(p)

SpecConc == InitConc /\ [][NextConc]_vars

\* ------------------------------------------------------------ query calls
\* SearchCards and the wishlist are functions of the table: they are applied
\* to every table of up to MaxQueryRows records with distinct names and
\* owned counts up to MaxQueryOwned, between increments and decrements.
QueryNames == {"Han", "Rey", "R2"}
Queries == {"", "a", "HA", "x", "_"}

QueryTables ==
  {[i \in 1..Len(t) |-> [ID |-> i, Name |-> t[i].Name, Image |-> "",
                         Owned |-> t[i].Owned, Mainboard |-> t[i].Mainboard]] :
     t \in {u \in UNION {[1..k -> [Name : QueryNames, Owned : 0..MaxQueryOwned,
                                    Mainboard : {0, 1}]] : k \in 0..MaxQueryRows} :
              \A i, j \in 1..Len(u) : i # j => u[i].Name # u[j].Name}}

Answered(op, query, err, result, again, first) ==
  [pc |-> "done", op |-> op, query |-> query, err |-> err, result |-> result,
   again |-> again, first |-> first, cardsBefore |-> cards]

RunQuery(op, query, fault) ==
  IF op = "search"
  THEN LET res == SearchCards(cards, query, fault)
       IN [err |-> res.err, result |-> res.cards]
  ELSE LET res == Wishlist(cards, query, fault)
       IN [err |-> res.err, result |-> res.entries]

SearchRequest(p) ==
  /\ proc[p].pc = "idle"
  /\ \E query \in Queries, fault \in BOOLEAN :
       LET res == RunQuery("search", query, fault)
       IN proc' = [proc EXCEPT ![p] =
                     Answered("search", query, res.err, res.result, FALSE, <<>>)]
  /\ UNCHANGED <<cards, files, schema>>

WishlistRequest(p) ==
  /\ proc[p].pc = "idle"
  /\ \E query \in Queries, fault \in BOOLEAN :
       LET res == RunQuery("wishlist", query, fault)
       IN proc' = [proc EXCEPT ![p] =
                     Answered("wishlist", query, res.err, res.result, FALSE, <<>>)]
  /\ UNCHANGED <<cards, files, schema>>

\* The same query is sent again right after its answer.
QueryAgain(p) ==
  /\ proc[p].pc = "done"
  /\ proc[p].op \in {"search", "wishlist"}
  /\ ~proc[p].again
  /\ proc[p].err = ""
  /\ \E fault \in BOOLEAN :
       LET res == RunQuery(proc[p].op, proc[p].query, fault)
       IN proc' = [proc EXCEPT ![p] =
                     Answered(proc[p].op, proc[p].query, res.err, res.result, TRUE,
                              proc[p].result)]
  /\ UNCHANGED <<cards, files, schema>>

InitQuery ==
  /\ cards \in QueryTables
  /\ files = <<>>
  /\ proc = [p \in {1} |-> Idle]
  /\ schema = MigratedSchema

NextQuery ==
  \/ \E p \in Procs : SearchRequest(p)
  \/ \E p \in Procs : WishlistRequest(p)
  \/ \E p \in Procs : QueryAgain(p)
  \/ \E p \in Procs : IncrementUpTo(p, MaxQueryOwned)
  \/ \E p \in Procs : Decrement(p)
  \/ \E p \in Procs : Return(p)

SpecQuery == InitQuery /\ [][NextQuery]_vars

\* -------------------------------------------------------------- start-up
\* The database file over several starts of the program: RunMigrations with
\* a statement that may fail, inserts by this release and by the one before
\* the mainboard column, owned count changes and reads in between.
MigrateNames == {"Han", "Rey"}

Called(op, fault, err, stmts, id, card) ==
  [pc |-> "done", op |-> op, fault |-> fault, err |-> err, stmts |-> stmts,
   id |-> id, card |-> card, schemaBefore |-> schema, cardsBefore |-> cards]

Migrate(p) ==
  /\ proc[p].pc = "idle"
  /\ \E fault \in MigrationFaults :
       LET res == RunMigrations(Database(schema, cards), fault)
       IN /\ schema' = res.db.schema
          /\ cards' = res.db.rows
          /\ proc' = [proc EXCEPT ![p] =
                        Called("migrate", fault, res.err, res.stmts, 0, NoRecord)]
  /\ UNCHANGED files

\* InsertCard(name, imagePath) of the release before the mainboard column.
InsertWithoutMainboard(p) ==
  /\ proc[p].pc = "idle"
  /\ Len(cards) < MaxMigrateRows
  /\ \E name \in MigrateNames :
       LET res == InsertCardWithoutMainboard(Database(schema, cards), name, "", FALSE)
       IN /\ cards' = res.db.rows
          /\ proc' = [proc EXCEPT ![p] =
                        Called("insert without mainboard", "none",
                               IF res.err THEN "insert card" ELSE "", <<>>,
                               Len(res.db.rows), NoRecord)]
  /\ UNCHANGED <<files, schema>>

\* InsertCard(name, imagePath, mainboard): the statement names the mainboard
\* column and fails on a table without it.
InsertWithMainboard(p) ==
  /\ proc[p].pc = "idle"
  /\ Len(cards) < MaxMigrateRows
  /\ \E name \in MigrateNames, mainboard \in BOOLEAN :
       LET res == InsertCard(cards, name, "", mainboard,
                             ~schema.table \/ ~HasColumn(schema, "mainboard"))
       IN /\ cards' = res.table
          /\ proc' = [proc EXCEPT ![p] =
                        Called("insert", "none",
                               IF res.err THEN "insert card" ELSE "", <<>>,
                               Len(res.table), NoRecord)]
  /\ UNCHANGED <<files, schema>>

ChangeOwned(p) ==
  /\ schema.table
  /\ IncrementUpTo(p, MaxOwned) \/ Decrement(p)

GetCard(p) ==
  /\ proc[p].pc = "idle"
  /\ \E id \in 0..(Len(cards) + 1) :
       LET res == GetCardByID(Database(schema, cards), id)
       IN proc' = [proc EXCEPT ![p] = Called("get", "none", res.err, <<>>, id, res.card)]
  /\ UNCHANGED <<cards, files, schema>>

InitMigrate ==
  /\ cards = <<>>
  /\ files = <<>>
  /\ proc = [p \in {1} |-> Idle]
  /\ schema = NoSchema

NextMigrate ==
  \/ \E p \in Procs : Migrate(p)
  \/ \E p \in Procs : InsertWithoutMainboard(p)
  \/ \E p \in Procs : InsertWithMainboard(p)
  \/ \E p \in Procs : ChangeOwned(p)
  \/ \E p \in Procs : GetCard(p)
  \/ \E p \in Procs : Return(p)

SpecMigrate == InitMigrate /\ [][NextMigrate]_vars

\* ------------------------------------------------------- import endpoints
\* POST /cards/import and POST /cards/import/html, each request served in one
\* step.  The server runs without an images directory, so no row touches the
\* image directory or the network; one store call of the import may fail.
ImportResult(statusCode, message, table) ==
  [statusCode |-> statusCode, message |-> message, table |-> table]

\* The loop of importCards over the parsed rows; calls counts the store
\* calls made so far and the call numbered faultAt fails.
RECURSIVE importCardsLoop(_, _, _, _, _, _)
importCardsLoop(table, csvCards, i, seen, calls, faultAt) ==
  IF i > Len(csvCards) THEN ImportResult(0, "", table)
  ELSE LET name == cardCSVToName(csvCards[i]) IN
       IF name \in seen
       THEN importCardsLoop(table, csvCards, i + 1, seen, calls, faultAt)
       ELSE LET found == CardExistsByName(table, name, calls + 1 = faultAt) IN
            IF found.err
            THEN ImportResult(StatusInternalServerError, "database error", table)
            ELSE IF found.exists
                 THEN importCardsLoop(SkipExisting(table, name), csvCards, i + 1,
                                      seen \cup {name}, calls + 1, faultAt)
                 ELSE LET res == InsertCard(table, name, "",
                                            IsMainboard(csvCards[i]),
                                            calls + 2 = faultAt)
                      IN IF res.err
                         THEN ImportResult(StatusInternalServerError,
                                           "database error", table)
                         ELSE importCardsLoop(res.table, csvCards, i + 1,
                                              seen \cup {name}, calls + 2, faultAt)

\* importCards from its call to its return: statusCode 0 stands for the nil
\* it returns on success.
importCards(table, stream, faultAt) ==
  LET parsed == parseCardsCSV(stream)
      rejected == RejectInput(parsed)
  IN IF rejected.statusCode # 0
     THEN ImportResult(rejected.statusCode, rejected.message, table)
     ELSE importCardsLoop(table, parsed.cards, 1, {}, 0, faultAt)

StatusOK == 200

\* What the client gets: the status line and the HX-Trigger header.
Response(statusCode, message, hxTrigger) ==
  [statusCode |-> statusCode, message |-> message, hxTrigger |-> hxTrigger]

\* Byte prefixes of a request body: none, the mark, the mark twice, and
\* the first one or two bytes of the mark.
BodyPrefixes == Prefixes \cup {utf8BOM \o utf8BOM, <<239>>, <<239, 187>>}
Bodies == {[pre |-> p, lines |-> s.lines] : p \in BodyPrefixes, s \in Streams}

\* The same bytes with the UTF-8 byte-order mark in front.
WithBOM(stream) == [stream EXCEPT !.pre = utf8BOM \o @]

\* The store call of an import that fails: none, the first or the second.
FaultAts == 0..2

\* multipart form of a request to the form endpoint: well formed with a
\* "file" part, not parseable, or without the "file" part.
Forms == {"file", "invalid", "no file"}

\* What is kept of a served import request: the response, what importCards
\* returned, what it would have returned for the same bytes behind a
\* byte-order mark, and the bytes the BOM step took from the body.
Served(op, stream, resp, res, marked) ==
  [pc |-> "done", op |-> op, pre |-> stream.pre, response |-> resp,
   returned |-> [statusCode |-> res.statusCode, message |-> res.message],
   discarded |-> Len(stream.pre) - Len(StripBOM(stream)),
   parseErr |-> parseCardsCSV(stream).err, rows |-> parseCardsCSV(stream).cards,
   marked |-> marked, cardsBefore |-> cards]

\* Variant: the raw-body endpoint answers 200 with the HX-Trigger header.
RespondRawAsForm(res) ==
  IF res.statusCode # 0 THEN Response(res.statusCode, res.message, "")
  ELSE Response(StatusOK, "", "cardsImported")

\* ImportCardsHandler after importCards returned.
RespondRaw(res) ==
  IF res.statusCode # 0 THEN Response(res.statusCode, res.message, "")
  ELSE Response(StatusNoContent, "", "")

\* ImportCardsHTMLHandler after importCards returned.
RespondForm(res) ==
  IF res.statusCode # 0 THEN Response(res.statusCode, res.message, "")
  ELSE Response(StatusOK, "", "cardsImported")

ImportCardsHandler(p) ==
  /\ proc[p].pc = "idle"
  /\ \E stream \in Bodies, faultAt \in FaultAts :
       LET res == importCards(cards, stream, faultAt)
       IN /\ cards' = res.table
          /\ proc' = [proc EXCEPT ![p] =
                        Served("import", stream, RespondRaw(res), res,
                               importCards(cards, WithBOM(stream), faultAt))]
  /\ UNCHANGED <<files, schema>>

ImportCardsHTMLHandler(p) ==
  /\ proc[p].pc = "idle"
  /\ \E form \in Forms :
       IF form = "invalid"
       THEN /\ proc' = [proc EXCEPT ![p] =
                 [pc |-> "done", op |-> "import/html", form |-> form,
                  response |-> Response(StatusBadRequest, "invalid form data", ""),
                  cardsBefore |-> cards]]
            /\ cards' = cards
       ELSE IF form = "no file"
       THEN /\ proc' = [proc EXCEPT ![p] =
                 [pc |-> "done", op |-> "import/html", form |-> form,
                  response |-> Response(StatusBadRequest, "file field is required", ""),
                  cardsBefore |-> cards]]
            /\ cards' = cards
       ELSE \E stream \in Bodies, faultAt \in FaultAts :
              LET res == importCards(cards, stream, faultAt)
              IN /\ cards' = res.table
                 /\ proc' = [proc EXCEPT ![p] =
                       Served("import/html", stream, RespondForm(res), res,
                              importCards(cards, WithBOM(stream), faultAt))]
  /\ UNCHANGED <<files, schema>>

InitEndpoints ==
  /\ cards = <<>>
  /\ files = <<>>
  /\ proc = [p \in {1} |-> Idle]
  /\ schema = MigratedSchema

NextEndpoints ==
  \/ \E p \in Procs : ImportCardsHandler(p)
  \/ \E p \in Procs : ImportCardsHTMLHandler(p)
  \/ \E p \in Procs : Return(p)

SpecEndpoints == InitEndpoints /\ [][NextEndpoints]_vars

\* ---------------------------------------------------------- card endpoints
\* GET /cards/{id}, POST /cards/{id}/increment and /decrement, and the store
\* functions under them called with any integer, over the tables of the
\* query calls.
StatusNotFound == 404

\* The id path values a client sends.
RawIDs == {"", "abc", "1.5", "-1", "0", "1", "2", "9"}

\* strconv.Atoi on those.
Atoi(rawID) ==
  CASE rawID = "-1" -> [err |-> FALSE, id |-> -1]
    [] rawID = "0" -> [err |-> FALSE, id |-> 0]
    [] rawID = "1" -> [err |-> FALSE, id |-> 1]
    [] rawID = "2" -> [err |-> FALSE, id |-> 2]
    [] rawID = "9" -> [err |-> FALSE, id |-> 9]
    [] OTHER -> [err |-> TRUE, id |-> 0]

\* Variant: only a negative id is turned away.
pathIDAllowsZero(rawID) ==
  IF rawID = ""
  THEN [ok |-> FALSE, id |-> 0, message |-> "id path parameter is required"]
  ELSE IF Atoi(rawID).err \/ Atoi(rawID).id < 0
       THEN [ok |-> FALSE, id |-> 0, message |-> "id must be a positive integer"]
       ELSE [ok |-> TRUE, id |-> Atoi(rawID).id, message |-> ""]

\* request.PathValue("id") and the two checks every card handler starts
\* with.
pathID(rawID) ==
  IF rawID = ""
  THEN [ok |-> FALSE, id |-> 0, message |-> "id path parameter is required"]
  ELSE IF Atoi(rawID).err \/ Atoi(rawID).id <= 0
       THEN [ok |-> FALSE, id |-> 0, message |-> "id must be a positive integer"]
       ELSE [ok |-> TRUE, id |-> Atoi(rawID).id, message |-> ""]

\* The response to the error of a store call; okStatus when there is none.
RespondStore(err, okStatus) ==
  IF err = ErrCardNotFound THEN Response(StatusNotFound, "card not found", "")
  ELSE IF err # ErrNone THEN Response(StatusInternalServerError, "database error", "")
       ELSE Response(okStatus, "", "")

Handled(op, rawID, resp, storeCalls, card) ==
  [pc |-> "done", op |-> op, rawID |-> rawID, response |-> resp,
   storeCalls |-> storeCalls, card |-> card, cardsBefore |-> cards]

GetCardHandler(p) ==
  /\ proc[p].pc = "idle"
  /\ \E rawID \in RawIDs :
       LET parsed == pathID(rawID)
           res == GetCardByID(Database(schema, cards), parsed.id)
       IN proc' = [proc EXCEPT ![p] =
            IF ~parsed.ok
            THEN Handled("GET /cards/{id}", rawID,
                         Response(StatusBadRequest, parsed.message, ""), 0, NoRecord)
            ELSE Handled("GET /cards/{id}", rawID, RespondStore(res.err, StatusOK),
                         1, res.card)]
  /\ UNCHANGED <<cards, files, schema>>

IncrementCardOwnedHandler(p) ==
  /\ proc[p].pc = "idle"
  /\ \E rawID \in RawIDs :
       LET parsed == pathID(rawID)
           res == IncrementCardOwned(cards, parsed.id)
       IN IF ~parsed.ok
          THEN /\ cards' = cards
               /\ proc' = [proc EXCEPT ![p] =
                    Handled("POST /cards/{id}/increment", rawID,
                            Response(StatusBadRequest, parsed.message, ""), 0, NoRecord)]
          ELSE /\ res.err = ErrNone => cards[parsed.id].Owned < MaxQueryOwned
               /\ cards' = res.table
               /\ proc' = [proc EXCEPT ![p] =
                    Handled("POST /cards/{id}/increment", rawID,
                            RespondStore(res.err, StatusNoContent), 1, NoRecord)]
  /\ UNCHANGED <<files, schema>>

DecrementCardOwnedHandler(p) ==
  /\ proc[p].pc = "idle"
  /\ \E rawID \in RawIDs :
       LET parsed == pathID(rawID)
           res == DecrementCardOwned(cards, parsed.id)
       IN IF ~parsed.ok
          THEN /\ cards' = cards
               /\ proc' = [proc EXCEPT ![p] =
                    Handled("POST /cards/{id}/decrement", rawID,
                            Response(StatusBadRequest, parsed.message, ""), 0, NoRecord)]
          ELSE /\ cards' = res.table
               /\ proc' = [proc EXCEPT ![p] =
                    Handled("POST /cards/{id}/decrement", rawID,
                            RespondStore(res.err, StatusNoContent), 1, NoRecord)]
  /\ UNCHANGED <<files, schema>>

\* The three store functions called with any integer.
StoreIDs == -1..(MaxQueryRows + 1)

StoreCalled(op, id, err, card) ==
  [pc |-> "done", op |-> op, id |-> id, err |-> err, card |-> card,
   cardsBefore |-> cards]

CallGetCardByID(p) ==
  /\ proc[p].pc = "idle"
  /\ \E id \in StoreIDs :
       LET res == GetCardByID(Database(schema, cards), id)
       IN proc' = [proc EXCEPT ![p] = StoreCalled("GetCardByID", id, res.err, res.card)]
  /\ UNCHANGED <<cards, files, schema>>

CallIncrementCardOwned(p) ==
  /\ proc[p].pc = "idle"
  /\ \E id \in StoreIDs :
       LET res == IncrementCardOwned(cards, id)
       IN /\ res.err = ErrNone => cards[id].Owned < MaxQueryOwned
          /\ cards' = res.table
          /\ proc' = [proc EXCEPT ![p] =
                        StoreCalled("IncrementCardOwned", id, res.err, NoRecord)]
  /\ UNCHANGED <<files, schema>>

CallDecrementCardOwned(p) ==
  /\ proc[p].pc = "idle"
  /\ \E id \in StoreIDs :
       LET res == DecrementCardOwned(cards, id)
       IN /\ cards' = res.table
          /\ proc' = [proc EXCEPT ![p] =
                        StoreCalled("DecrementCardOwned", id, res.err, NoRecord)]
  /\ UNCHANGED <<files, schema>>

InitCards ==
  /\ cards \in QueryTables
  /\ files = <<>>
  /\ proc = [p \in {1} |-> Idle]
  /\ schema = MigratedSchema

NextCards ==
  \/ \E p \in Procs : GetCardHandler(p)
  \/ \E p \in Procs : IncrementCardOwnedHandler(p)
  \/ \E p \in Procs : DecrementCardOwnedHandler(p)
  \/ \E p \in Procs : CallGetCardByID(p)
  \/ \E p \in Procs : CallIncrementCardOwned(p)
  \/ \E p \in Procs : CallDecrementCardOwned(p)
  \/ \E p \in Procs : Return(p)

SpecCards == InitCards /\ [][NextCards]_vars

\* ------------------------------------------------------------ store calls
\* InsertCard and CardExistsByName called with any name, the empty one
\* included, between imports of well-formed CSVs over the rows of the pool.
MaxStoreRows == 2

StoreNames == {"", "Han", "Rey"}

NameCalled(op, name, err, exists) ==
  [pc |-> "done", op |-> op, name |-> name, err |-> err, exists |-> exists,
   cardsBefore |-> cards]

CallInsertCard(p) ==
  /\ proc[p].pc = "idle"
  /\ Len(cards) < MaxStoreRows
  /\ \E name \in StoreNames, mainboard \in BOOLEAN, fault \in BOOLEAN :
       LET res == InsertCard(cards, name, "", mainboard, fault)
       IN /\ cards' = res.table
          /\ proc' = [proc EXCEPT ![p] = NameCalled("InsertCard", name, res.err, FALSE)]
  /\ UNCHANGED <<files, schema>>

CallCardExistsByName(p) ==
  /\ proc[p].pc = "idle"
  /\ \E name \in StoreNames, fault \in BOOLEAN :
       LET res == CardExistsByName(cards, name, fault)
       IN proc' = [proc EXCEPT ![p] =
                     NameCalled("CardExistsByName", name, res.err, res.exists)]
  /\ UNCHANGED <<cards, files, schema>>

\* POST /cards/import with a well-formed CSV of up to MaxRows rows.
ImportWellFormed(p) ==
  /\ proc[p].pc = "idle"
  /\ Len(cards) < MaxStoreRows
  /\ \E rows \in SeqsUpTo(RowPool, MaxRows), faultAt \in FaultAts :
       LET stream == StreamOf(rows)
           res == importCards(cards, stream, faultAt)
       IN /\ cards' = res.table
          /\ proc' = [proc EXCEPT ![p] =
                        Served("import", stream, RespondRaw(res), res,
                               importCards(cards, WithBOM(stream), faultAt))]
  /\ UNCHANGED <<files, schema>>

InitStore ==
  /\ cards = <<>>
  /\ files = <<>>
  /\ proc = [p \in {1} |-> Idle]
  /\ schema = MigratedSchema

NextStore ==
  \/ \E p \in Procs : CallInsertCard(p)
  \/ \E p \in Procs : CallCardExistsByName(p)
  \/ \E p \in Procs : ImportWellFormed(p)
  \/ \E p \in Procs : Return(p)

SpecStore == InitStore /\ [][NextStore]_vars

\* ------------------------------------------------- the file-backed store
MaxFileCards == 2
MaxFileOwned == 2

\* models.SWUDBCard, with the fields InsertSWUDBCard reads.
SWUDBCard(set, cardNumber, cardName, cardTitle, cardType, rarity) ==
  [Set |-> set, CardNumber |-> cardNumber, CardName |-> cardName,
   CardTitle |-> cardTitle, CardType |-> cardType, Rarity |-> rarity]

SWUDBType_Base == "Base"
SWUDBRarity_Common == "Common"

\* Cards of an export: with and without title, two that derive the same
\* name, a common base, a rare base, and two that fail the field checks.
SWUDBPool ==
  { SWUDBCard("SOR", "1", "Han", "Solo", "Unit", "Rare"),
    SWUDBCard("SHD", "9", "Han, Solo", "", "Event", "Rare"),
    SWUDBCard("SOR", "3", "Leia", "", "Base", "Common"),
    SWUDBCard("SOR", "4", "Leia", "", "Base", "Rare"),
    SWUDBCard("SOR", "5", "", "", "Unit", "Rare"),
    SWUDBCard("SOR", "6", "R2", "", "", "Rare") }

\* models.Card of the file-backed store.
StoreCard(name, owned, type, swudbURL) ==
  [Name |-> name, Owned |-> owned, Type |-> type, SWUDBURL |-> swudbURL]

\* The Store struct: filepath, collection, names.
StorePath == "collection.json"
StoreOf(collection, names) ==
  [filepath |-> StorePath, collection |-> collection, names |-> names]

\* json.Marshal(s.collection): an array of objects with the json keys of
\* models.Card; json.Unmarshal reads it back.
MarshalCollection(collection) ==
  [complete |-> TRUE,
   array |-> [i \in 1..Len(collection) |->
                [name |-> collection[i].Name, owned |-> collection[i].Owned,
                 type |-> collection[i].Type,
                 swudbURL |-> collection[i].SWUDBURL]]]

UnmarshalCollection(data) ==
  [i \in 1..Len(data.array) |->
     StoreCard(data.array[i].name, data.array[i].owned, data.array[i].type,
               data.array[i].swudbURL)]

\* What os.WriteFile leaves when it fails after it truncated the file.
TruncatedFile == [complete |-> FALSE, array |-> <<>>]

WriteFile(fs, path, data) ==
  [f \in DOMAIN fs \cup {path} |-> IF f = path THEN data ELSE fs[f]]

refreshNames(s) ==
  [s EXCEPT !.names = [i \in 1..Len(s.collection) |-> s.collection[i].Name]]

\* What a call of os.WriteFile can end in.
WriteOutcomes == {"ok", "open failed", "write failed"}

\* Save: marshal, write, refresh the names; the names are not refreshed
\* when the write fails.
Save(s, fs, outcome) ==
  IF outcome = "ok"
  THEN [s |-> refreshNames(s),
        fs |-> WriteFile(fs, s.filepath, MarshalCollection(s.collection)),
        err |-> ""]
  ELSE [s |-> s,
        fs |-> IF outcome = "write failed"
               THEN WriteFile(fs, s.filepath, TruncatedFile) ELSE fs,
        err |-> "failed to write file"]

\* store.New(filepath): an empty collection when the file is missing (the
\* names stay nil), else the collection of the file with its names.
StoreNew(fs) ==
  IF StorePath \notin DOMAIN fs THEN StoreOf(<<>>, <<>>)
  ELSE refreshNames(StoreOf(UnmarshalCollection(fs[StorePath]), <<>>))

\* getCardByName: index and card of the first card with the name.
getCardByName(s, name) ==
  LET hits == {i \in 1..Len(s.collection) : s.collection[i].Name = name}
  IN IF hits = {} THEN [i |-> 0, err |-> "card not found"]
     ELSE [i |-> CHOOSE i \in hits : \A j \in hits : i <= j, err |-> ""]

\* fuzzy match: the runes of source appear in target in this order.
RECURSIVE matchRunes(_, _)
matchRunes(source, target) ==
  IF source = <<>> THEN TRUE
  ELSE IF target = <<>> THEN FALSE
       ELSE IF Head(source) = Head(target)
            THEN matchRunes(Tail(source), Tail(target))
            ELSE matchRunes(source, Tail(target))

FoldRunes(runes) == [i \in 1..Len(runes) |-> Lower(runes[i])]

\* The match of the NormalizedFold functions: both sides are folded first.
MatchNormalizedFold(source, target) ==
  /\ Len(target) - Len(source) >= 0
  /\ matchRunes(FoldRunes(source), FoldRunes(target))

\* fuzzy.LevenshteinDistance(s, t), on the runes as they were given.
LevenshteinDistance(s, t) ==
  LET d[i \in 0..Len(s), j \in 0..Len(t)] ==
        IF i = 0 THEN j
        ELSE IF j = 0 THEN i
        ELSE LET del == d[i - 1, j] + 1
                 ins == d[i, j - 1] + 1
                 sub == d[i - 1, j - 1] + (IF s[i] = t[j] THEN 0 ELSE 1)
                 m == IF del <= ins THEN del ELSE ins
             IN IF m <= sub THEN m ELSE sub
  IN d[Len(s), Len(t)]

\* fuzzy.RankFindNormalizedFold(source, targets): the matching targets in
\* the order of targets, each with its distance.
RECURSIVE RankFindNormalizedFold(_, _, _)
RankFindNormalizedFold(source, targets, i) ==
  IF i > Len(targets) THEN <<>>
  ELSE LET rest == RankFindNormalizedFold(source, targets, i + 1)
       IN IF MatchNormalizedFold(source, Chars(targets[i]))
          THEN <<[Target |-> targets[i],
                  Distance |-> LevenshteinDistance(source, Chars(targets[i]))]>>
                 \o rest
          ELSE rest

\* sort.Sort(matches): by Distance; for the few matches of the model the sort
\* is an insertion sort, which keeps matches of one distance in their order.
RECURSIVE SortRanks(_)
SortRanks(matches) ==
  IF matches = <<>> THEN <<>>
  ELSE LET sorted == SortRanks(SubSeq(matches, 1, Len(matches) - 1))
           m == matches[Len(matches)]
           k == Cardinality({j \in 1..Len(sorted) : sorted[j].Distance <= m.Distance})
       IN SubSeq(sorted, 1, k) \o <<m>> \o SubSeq(sorted, k + 1, Len(sorted))

\* Search: the cards of the matching names, nearest first.
Search(s, search) ==
  LET matches == SortRanks(RankFindNormalizedFold(search, s.names, 1))
      missing == \E j \in 1..Len(matches) :
                   getCardByName(s, matches[j].Target).err # ""
  IN IF missing THEN [results |-> <<>>, err |-> "card not found"]
     ELSE [results |-> [j \in 1..Len(matches) |->
                          s.collection[getCardByName(s, matches[j].Target).i]],
           err |-> ""]

\* The name InsertSWUDBCard stores a card under.
swudbCardName(swudbCard) ==
  IF swudbCard.CardTitle # ""
  THEN swudbCard.CardName \o ", " \o swudbCard.CardTitle
  ELSE swudbCard.CardName

\* Variant: the card is appended without looking for its name.
InsertSWUDBCardNoLookup(s, swudbCard) ==
  IF swudbCard.CardName = "" THEN [s |-> s, err |-> "card name is empty"]
  ELSE IF swudbCard.Set = "" THEN [s |-> s, err |-> "card set is empty"]
  ELSE IF swudbCard.CardNumber = "" THEN [s |-> s, err |-> "card number is empty"]
  ELSE IF swudbCard.CardType = "" THEN [s |-> s, err |-> "card rarity is empty"]
  ELSE IF swudbCard.CardType = SWUDBType_Base /\ swudbCard.Rarity = SWUDBRarity_Common
       THEN [s |-> s, err |-> ""]
  ELSE [s |-> [s EXCEPT !.collection =
                 Append(@, StoreCard(swudbCardName(swudbCard), 0, swudbCard.CardType,
                          "https://swudb.com/card/" \o swudbCard.Set \o "/"
                            \o swudbCard.CardNumber))],
        err |-> ""]

InsertSWUDBCard(s, swudbCard) ==
  IF swudbCard.CardName = "" THEN [s |-> s, err |-> "card name is empty"]
  ELSE IF swudbCard.Set = "" THEN [s |-> s, err |-> "card set is empty"]
  ELSE IF swudbCard.CardNumber = "" THEN [s |-> s, err |-> "card number is empty"]
  ELSE IF swudbCard.CardType = "" THEN [s |-> s, err |-> "card rarity is empty"]
  ELSE IF swudbCard.CardType = SWUDBType_Base /\ swudbCard.Rarity = SWUDBRarity_Common
       THEN [s |-> s, err |-> ""]
  ELSE IF \E i \in 1..Len(s.collection) :
            s.collection[i].Name = swudbCardName(swudbCard)
       THEN [s |-> s, err |-> ""]
  ELSE [s |-> [s EXCEPT !.collection =
                 Append(@, StoreCard(swudbCardName(swudbCard), 0, swudbCard.CardType,
                          "https://swudb.com/card/" \o swudbCard.Set \o "/"
                            \o swudbCard.CardNumber))],
        err |-> ""]

\* The loop of InsertSWUDBCSV: it stops at the first card that is refused.
RECURSIVE InsertEach(_, _, _)
InsertEach(s, swudbCollection, i) ==
  IF i > Len(swudbCollection) THEN [s |-> s, err |-> ""]
  ELSE LET r == InsertSWUDBCard(s, swudbCollection[i])
       IN IF r.err # "" THEN [s |-> r.s, err |-> "failed to insert card"]
          ELSE InsertEach(r.s, swudbCollection, i + 1)

\* What os.Open and gocsv.UnmarshalFile hand to InsertSWUDBCSV: no file, a
\* nil slice, or the cards of the file.
CSVPool ==
  {c \in SWUDBPool : c.Set = "SOR" /\ c.CardNumber \in {"1", "3", "5"}}

CSVFiles ==
  {[kind |-> "open failed", cards |-> <<>>], [kind |-> "nil", cards |-> <<>>]}
    \cup {[kind |-> "cards", cards |-> c] : c \in SeqsUpTo(CSVPool, MaxFileCards)}

InsertSWUDBCSV(s, fs, csv, outcome) ==
  IF csv.kind = "open failed" THEN [s |-> s, fs |-> fs, err |-> "failed to open file"]
  ELSE IF csv.kind = "nil" THEN [s |-> s, fs |-> fs, err |-> "swudbCollection is nil"]
  ELSE LET r == InsertEach(s, csv.cards, 1)
       IN IF r.err # "" THEN [s |-> r.s, fs |-> fs, err |-> r.err]
          ELSE LET saved == Save(r.s, fs, outcome)
               IN IF saved.err # ""
                  THEN [s |-> saved.s, fs |-> saved.fs, err |-> "failed to save"]
                  ELSE saved

\* (*Store).IncrementCardOwned: the error of Save is dropped.
StoreIncrementCardOwned(s, fs, name, outcome) ==
  LET found == getCardByName(s, name)
  IN IF found.err # "" THEN [s |-> s, fs |-> fs, err |-> "failed to get card"]
     ELSE LET saved == Save([s EXCEPT !.collection[found.i].Owned = @ + 1],
                            fs, outcome)
          IN [s |-> saved.s, fs |-> saved.fs, err |-> ""]

\* (*Store).DecrementCardOwned: nothing is done at 0.
StoreDecrementCardOwned(s, fs, name, outcome) ==
  LET found == getCardByName(s, name)
  IN IF found.err # "" THEN [s |-> s, fs |-> fs, err |-> "failed to get card"]
     ELSE IF s.collection[found.i].Owned = 0 THEN [s |-> s, fs |-> fs, err |-> ""]
          ELSE LET saved == Save([s EXCEPT !.collection[found.i].Owned = @ - 1],
                                 fs, outcome)
               IN [s |-> saved.s, fs |-> saved.fs, err |-> ""]

\* The cards of SWUDBPool that InsertSWUDBCard adds to an empty collection.
AddedPool ==
  {c \in SWUDBPool : InsertSWUDBCard(StoreOf(<<>>, <<>>), c).s.collection # <<>>}

\* The file at start-up: missing, or written by the Save that ended an
\* earlier InsertSWUDBCSV.
InitialDisks ==
  {<<>>} \cup
  {WriteFile(<<>>, StorePath,
             MarshalCollection(InsertEach(StoreOf(<<>>, <<>>), c, 1).s.collection)) :
     c \in SeqsUpTo(AddedPool, MaxFileCards)}

\* Names and search texts the callers of the store use.
CardNames == {"Han, Solo", "Leia", "R2"}
Runes == {"a", "h", " ", "+", "-"}
MaxText == 2
SearchTexts == SeqsUpTo(Runes, MaxText)

\* The process that owns the store, after a call of op has returned: the
\* names index of its Store, the call, its error, and the collection as it
\* was before the call.
StoreCaller(names, op, name, err, before) ==
  [names |-> names, op |-> op, name |-> name, err |-> err, before |-> before]

InitFileStore ==
  /\ files \in InitialDisks
  /\ cards = StoreNew(files).collection
  /\ proc = [p \in {1} |->
               StoreCaller(StoreNew(files).names, "New", "", "",
                           StoreNew(files).collection)]
  /\ schema = MigratedSchema

TheStore(p) == StoreOf(cards, proc[p].names)

\* A call has returned what returned holds.
StoreReturns(p, op, name, returned) ==
  \E r \in {returned} :
    /\ cards' = r.s.collection
    /\ files' = r.fs
    /\ proc' = [proc EXCEPT ![p] = StoreCaller(r.s.names, op, name, r.err, cards)]
    /\ schema' = schema

CallInsertSWUDBCard(p) ==
  \E swudbCard \in SWUDBPool :
    LET r == InsertSWUDBCard(TheStore(p), swudbCard)
    IN StoreReturns(p, "InsertSWUDBCard", swudbCardName(swudbCard),
                    [s |-> r.s, fs |-> files, err |-> r.err])

CallInsertSWUDBCSV(p) ==
  \E csv \in CSVFiles, outcome \in WriteOutcomes :
    StoreReturns(p, "InsertSWUDBCSV", "",
                 InsertSWUDBCSV(TheStore(p), files, csv, outcome))

CallStoreIncrementCardOwned(p) ==
  \E name \in CardNames, outcome \in WriteOutcomes :
    /\ \A i \in 1..Len(cards) : cards[i].Name = name => cards[i].Owned < MaxFileOwned
    /\ StoreReturns(p, "IncrementCardOwned", name,
                    StoreIncrementCardOwned(TheStore(p), files, name, outcome))

CallStoreDecrementCardOwned(p) ==
  \E name \in CardNames, outcome \in WriteOutcomes :
    StoreReturns(p, "DecrementCardOwned", name,
                 StoreDecrementCardOwned(TheStore(p), files, name, outcome))

CallSave(p) ==
  \E outcome \in WriteOutcomes :
    StoreReturns(p, "Save", "", Save(TheStore(p), files, outcome))

\* Search reads the store and changes nothing in it.
CallSearch(p) ==
  \E search \in {<<>>, <<"a">>, <<"h", " ">>} :
    StoreReturns(p, "Search", "",
                 [s |-> TheStore(p), fs |-> files,
                  err |-> Search(TheStore(p), search).err])

NextFileStore ==
  \/ \E p \in DOMAIN proc : CallInsertSWUDBCard(p)
  \/ \E p \in DOMAIN proc : CallInsertSWUDBCSV(p)
  \/ \E p \in DOMAIN proc : CallStoreIncrementCardOwned(p)
  \/ \E p \in DOMAIN proc : CallStoreDecrementCardOwned(p)
  \/ \E p \in DOMAIN proc : CallSave(p)
  \/ \E p \in DOMAIN proc : CallSearch(p)

SpecFileStore == InitFileStore /\ [][NextFileStore]_vars

\* ---------------------------------------------------------- the terminal UI
\* textinput.Model, with what the program reads and sets of it.
TextInput(value, focus, width) ==
  [value |-> value, focus |-> focus, Width |-> width]

CharLimit == 256

\* tui.Model without the store pointer.
Model(searchInput, searchResults, cursorPosition, width, height) ==
  [searchInput |-> searchInput, searchResults |-> searchResults,
   cursorPosition |-> cursorPosition, width |-> width, height |-> height]

\* New(s): the search bar is focused, no results, the cursor in the bar.
tuiNew == Model(TextInput(<<>>, TRUE, 50), <<>>, -1, 0, 0)

\* tea.KeyMsg and tea.WindowSizeMsg.
KeyMsg(type, runes) ==
  [msg |-> "KeyMsg", Type |-> type, Runes |-> runes, Width |-> 0, Height |-> 0]
WindowSizeMsg(width, height) ==
  [msg |-> "WindowSizeMsg", Type |-> "", Runes |-> <<>>, Width |-> width,
   Height |-> height]
NoMsg == [msg |-> "none", Type |-> "", Runes |-> <<>>, Width |-> 0, Height |-> 0]

WindowSizes == {WindowSizeMsg(10, 3), WindowSizeMsg(80, 24)}

\* strings.TrimSpace on the runes of the search text.
RECURSIVE TrimLeftSpace(_)
TrimLeftSpace(runes) ==
  IF runes # <<>> /\ Head(runes) = " " THEN TrimLeftSpace(Tail(runes)) ELSE runes

RECURSIVE TrimRightSpace(_)
TrimRightSpace(runes) ==
  IF runes # <<>> /\ runes[Len(runes)] = " "
  THEN TrimRightSpace(SubSeq(runes, 1, Len(runes) - 1)) ELSE runes

TrimSpaceRunes(runes) == TrimRightSpace(TrimLeftSpace(runes))

\* textinput's Update: without focus nothing; runes are added at the end up
\* to CharLimit, backspace takes the last rune away, other messages leave
\* the value as it is.
textinputUpdate(input, msg) ==
  IF ~input.focus THEN input
  ELSE IF msg.msg = "KeyMsg" /\ msg.Type = "KeyRunes"
       THEN IF Len(input.value) + Len(msg.Runes) <= CharLimit
            THEN [input EXCEPT !.value = @ \o msg.Runes] ELSE input
       ELSE IF msg.msg = "KeyMsg" /\ msg.Type = "KeyBackspace" /\ input.value # <<>>
            THEN [input EXCEPT !.value = SubSeq(@, 1, Len(@) - 1)]
            ELSE input

performSearch(m, s) ==
  LET query == TrimSpaceRunes(m.searchInput.value)
  IN IF query = <<>> THEN [m EXCEPT !.searchResults = <<>>]
     ELSE LET found == Search(s, query)
          IN IF found.err # "" THEN [m EXCEPT !.searchResults = <<>>]
             ELSE [m EXCEPT !.searchResults = found.results]

\* The end of Update: the search input gets the message only while the
\* cursor is in the bar; a changed value starts a new search.
UpdateSearchInput(m, s, fs, msg) ==
  IF m.cursorPosition = -1
  THEN LET input == textinputUpdate(m.searchInput, msg)
           typed == [m EXCEPT !.searchInput = input]
       IN IF input.value # m.searchInput.value
          THEN [m |-> [performSearch(typed, s) EXCEPT !.cursorPosition = -1],
                s |-> s, fs |-> fs, quit |-> FALSE]
          ELSE [m |-> typed, s |-> s, fs |-> fs, quit |-> FALSE]
  ELSE [m |-> m, s |-> s, fs |-> fs, quit |-> FALSE]

\* Variant: moving down from the bar leaves the search input focused.
KeyDownNoBlur(m) ==
  IF Len(m.searchResults) > 0 /\ m.cursorPosition < Len(m.searchResults) - 1
  THEN [m EXCEPT !.cursorPosition = @ + 1]
  ELSE m

\* case tea.KeyDown
KeyDown(m) ==
  IF Len(m.searchResults) > 0 /\ m.cursorPosition < Len(m.searchResults) - 1
  THEN [m EXCEPT !.cursorPosition = @ + 1,
                 !.searchInput.focus = IF m.cursorPosition + 1 >= 0 THEN FALSE ELSE @]
  ELSE m

\* Variant: the cursor moves up also from the bar.
KeyUpUnguarded(m) ==
  [m EXCEPT !.cursorPosition = @ - 1,
            !.searchInput.focus = IF m.cursorPosition - 1 = -1 THEN TRUE ELSE @]

\* case tea.KeyUp
KeyUp(m) ==
  IF m.cursorPosition > -1
  THEN [m EXCEPT !.cursorPosition = @ - 1,
                 !.searchInput.focus = IF m.cursorPosition - 1 = -1 THEN TRUE ELSE @]
  ELSE m

\* Model.Update(msg) with the store it works on; outcome is what the write
\* of Save ends in when an owned count is changed.
Update(m, s, fs, msg, outcome) ==
  IF msg.msg = "KeyMsg"
  THEN IF msg.Type = "KeyCtrlC" THEN [m |-> m, s |-> s, fs |-> fs, quit |-> TRUE]
       ELSE IF msg.Type = "KeyDown"
            THEN [m |-> KeyDown(m), s |-> s, fs |-> fs, quit |-> FALSE]
       ELSE IF msg.Type = "KeyUp"
            THEN [m |-> KeyUp(m), s |-> s, fs |-> fs, quit |-> FALSE]
       ELSE IF /\ msg.Type = "KeyRunes"
               /\ m.cursorPosition >= 0
               /\ m.cursorPosition < Len(m.searchResults)
               /\ msg.Runes \in {<<"+">>, <<"=">>, <<"-">>, <<"_">>}
            THEN LET card == m.searchResults[m.cursorPosition + 1]
                     r == IF msg.Runes \in {<<"+">>, <<"=">>}
                          THEN StoreIncrementCardOwned(s, fs, card.Name, outcome)
                          ELSE StoreDecrementCardOwned(s, fs, card.Name, outcome)
                 IN [m |-> performSearch(m, r.s), s |-> r.s, fs |-> r.fs,
                     quit |-> FALSE]
            ELSE UpdateSearchInput(m, s, fs, msg)
  ELSE UpdateSearchInput(
         [m EXCEPT !.width = msg.Width, !.height = msg.Height,
                   !.searchInput.Width =
                      IF msg.Width - 6 < 20 THEN 20 ELSE msg.Width - 6],
         s, fs, msg)

\* The program: the names index of its store, the model, whether Update
\* returned tea.Quit, the last message, and where the cursor was when that
\* message came.
Program(names, m, quit, msg, cursorBefore) ==
  [names |-> names, m |-> m, quit |-> quit, msg |-> msg,
   cursorBefore |-> cursorBefore]

InitTUI ==
  /\ files \in InitialDisks
  /\ cards = StoreNew(files).collection
  /\ proc = [p \in {1} |-> Program(StoreNew(files).names, tuiNew, FALSE, NoMsg, -1)]
  /\ schema = MigratedSchema

\* The program takes msg up.  tea.Quit is a command: messages that are
\* already under way are still handed to Update after it.
Handle(p, msg, outcome) ==
  \E r \in {Update(proc[p].m, TheStore(p), files, msg, outcome)} :
     /\ cards' = r.s.collection
     /\ files' = r.fs
     /\ proc' = [proc EXCEPT ![p] = Program(r.s.names, r.m, r.quit, msg,
                                            proc[p].m.cursorPosition)]
     /\ schema' = schema

PressCtrlC(p) == Handle(p, KeyMsg("KeyCtrlC", <<>>), "ok")
PressDown(p) == Handle(p, KeyMsg("KeyDown", <<>>), "ok")
PressUp(p) == Handle(p, KeyMsg("KeyUp", <<>>), "ok")
PressBackspace(p) == Handle(p, KeyMsg("KeyBackspace", <<>>), "ok")
PressEnter(p) == Handle(p, KeyMsg("KeyEnter", <<>>), "ok")

\* A rune key; the text and the owned counts stay within the bounds.  The
\* write of Save succeeds or fails half-way.
PressRunes(p) ==
  \E r \in Runes, outcome \in {"ok", "write failed"} :
    LET m == proc[p].m
        onResult == m.cursorPosition >= 0 /\ m.cursorPosition < Len(m.searchResults)
    IN /\ m.cursorPosition = -1 => Len(m.searchInput.value) < MaxText
       /\ (onResult /\ r \in {"+", "="}) =>
            \A i \in 1..Len(cards) :
              cards[i].Name = m.searchResults[m.cursorPosition + 1].Name
                => cards[i].Owned < MaxFileOwned
       /\ Handle(p, KeyMsg("KeyRunes", <<r>>), outcome)

Resize(p) == \E msg \in WindowSizes : Handle(p, msg, "ok")

NextTUI ==
  \/ \E p \in DOMAIN proc : PressCtrlC(p)
  \/ \E p \in DOMAIN proc : PressDown(p)
  \/ \E p \in DOMAIN proc : PressUp(p)
  \/ \E p \in DOMAIN proc : PressBackspace(p)
  \/ \E p \in DOMAIN proc : PressEnter(p)
  \/ \E p \in DOMAIN proc : PressRunes(p)
  \/ \E p \in DOMAIN proc : Resize(p)

SpecTUI == InitTUI /\ [][NextTUI]_vars

\* ----------------------------------------------------------------- claims
DoneImport(p) == proc[p].pc = "done" /\ proc[p].op = "import"
Succeeded(p) == DoneImport(p) /\ proc[p].statusCode = StatusNoContent

RowNames(rows) == {cardCSVToName(rows[i]) : i \in 1..Len(rows)}
FirstIndex(rows, name) ==
  CHOOSE i \in 1..Len(rows) :
    /\ cardCSVToName(rows[i]) = name
    /\ \A j \in 1..(i - 1) : cardCSVToName(rows[j]) # name
RepeatedRows(rows) ==
  {i \in 1..Len(rows) :
     \E j \in 1..(i - 1) : cardCSVToName(rows[j]) = cardCSVToName(rows[i])}
RecordsNamed(table, name) == {i \in 1..Len(table) : table[i].Name = name}

\* C1: when the batch of a successful import is imported again right away
\* and the store answers every statement, the second import succeeds,
\* inserts nothing, and leaves every record as the first import left it.
C1_ReimportIsIdempotent ==
  \A p \in Procs :
    (DoneImport(p) /\ proc[p].again /\ proc[p].faults = 0)
      => /\ proc[p].statusCode = StatusNoContent
         /\ proc[p].insertedCount = 0
         /\ proc[p].insertCalls = 0
         /\ cards = proc[p].cardsBefore

C1_Witness ==
  \E p \in Procs :
    /\ Succeeded(p) /\ proc[p].again
    /\ proc[p].skippedDBCount > 0
    /\ Len(cards) > 0

C3_NamesUnique ==
  \A i, j \in 1..Len(cards) : i # j => cards[i].Name # cards[j].Name

C3_Witness ==
  /\ Len(cards) >= 2
  /\ \E p \in Procs : Succeeded(p) /\ proc[p].skippedDBCount > 0
  /\ \E i \in 1..Len(cards) : cards[i].Owned > 0

RECURSIVE InsertedBy(_)
InsertedBy(ps) ==
  IF ps = {} THEN 0
  ELSE LET p == CHOOSE x \in ps : TRUE
       IN proc[p].insertedCount + InsertedBy(ps \ {p})

\* C4: with two importers running at once nothing refuses or detects the
\* second insert of a name: every insert an importer issues adds a record,
\* and every import that meets no store fault returns success; both
\* importers can so pass the existence check for the same new name and both
\* insert it.
C4_RaceNotPrevented ==
  /\ Len(cards) = InsertedBy(Procs)
  /\ \A p \in Procs :
       (DoneImport(p) /\ proc[p].faults = 0) => proc[p].statusCode = StatusNoContent

C4_Witness ==
  /\ \A p \in Procs : Succeeded(p) /\ proc[p].insertedCount >= 1
  /\ \E i, j \in 1..Len(cards) : i # j /\ cards[i].Name = cards[j].Name
  /\ \E n \in RowNames(proc[1].rows) \cap RowNames(proc[2].rows) :
       Cardinality(RecordsNamed(cards, n)) = 2

InImport(p) == proc[p].op = "import" /\ proc[p].pc # "idle"

KeepsRecordsOf(p) ==
  /\ Len(cards) >= Len(proc[p].cardsBefore)
  /\ \A i \in 1..Len(proc[p].cardsBefore) : cards[i] = proc[p].cardsBefore[i]

\* C5: at every point of an import, and when it has returned with success
\* or with an error, every record that was in the store when it started is
\* still there with the same id, name, image, owned and mainboard.
C5_ExistingRecordsUntouched ==
  \A p \in Procs : InImport(p) => KeepsRecordsOf(p)

C5_Witness ==
  \E p \in Procs :
    /\ DoneImport(p)
    /\ proc[p].skippedDBCount > 0
    /\ proc[p].insertedCount > 0
    /\ \E i \in 1..Len(proc[p].cardsBefore) :
         /\ cards[i].Name \in RowNames(proc[p].rows)
         /\ cards[i].Owned > 0
         /\ ScanCard(cards[i]).Mainboard
              # IsMainboard(proc[p].rows[FirstIndex(proc[p].rows, cards[i].Name)])

\* C6: no record ever has a negative owned count, and DecrementCardOwned on
\* a record with owned = 0 returns without error and leaves owned at 0.
C6_OwnedNeverNegative ==
  /\ \A i \in 1..Len(cards) : cards[i].Owned >= 0
  /\ \A i \in 1..Len(cards) :
       cards[i].Owned = 0 =>
         /\ DecrementCardOwned(cards, i).err = ErrNone
         /\ DecrementCardOwned(cards, i).table[i].Owned = 0
  /\ \A p \in Procs :
       (proc[p].pc = "done" /\ proc[p].op = "decrement"
          /\ proc[p].id \in 1..Len(proc[p].cardsBefore))
         => /\ proc[p].err = ErrNone
            /\ cards[proc[p].id].Owned
                 = Max(proc[p].cardsBefore[proc[p].id].Owned - 1, 0)

C6_Witness ==
  \E p \in Procs :
    /\ proc[p].pc = "done" /\ proc[p].op = "decrement" /\ proc[p].err = ErrNone
    /\ proc[p].cardsBefore[proc[p].id].Owned = 0
    /\ cards[proc[p].id].Owned = 0
    /\ \E i \in 1..Len(cards) : cards[i].Owned > 0

InvalidCSVMessages ==
  {"invalid CSV: read CSV header",
   "invalid CSV: CSV header does not match expected format",
   "invalid CSV: read CSV record"}
EmptyCSVMessage == "CSV contains no card rows"

NoSideEffect(p) ==
  /\ cards = proc[p].cardsBefore
  /\ files = proc[p].filesBefore
  /\ proc[p].existsCalls = 0 /\ proc[p].insertCalls = 0
  /\ proc[p].statCalls = 0 /\ proc[p].fetches = 0 /\ proc[p].waits = 0

\* C7: an import whose stream holds a malformed data row (a field count
\* other than 13, or illegal quoting) never enters its loop: it returns 400
\* with an "invalid CSV" message, having inserted no record and fetched or
\* written no image, also when well-formed rows precede the malformed one.
C7_MalformedRowRejectsAll ==
  \A p \in Procs :
    (InImport(p) /\ proc[p].info.malformedRow)
      => /\ proc[p].pc = "done"
         /\ proc[p].statusCode = StatusBadRequest
         /\ proc[p].message \in InvalidCSVMessages
         /\ NoSideEffect(p)

C7_Witness ==
  \E p \in Procs :
    /\ DoneImport(p)
    /\ proc[p].info.malformedAfterOk
    /\ ~proc[p].info.headerMismatch
    /\ proc[p].message = "invalid CSV: read CSV record"
    /\ cards = <<>>

\* C8: an import whose header row has a field count other than 13 or a
\* first field other than "Set" returns 400 with the header message,
\* whatever follows the header, and changes neither store nor images.
C8_BadHeaderRejected ==
  \A p \in Procs :
    (InImport(p) /\ proc[p].info.headerMismatch)
      => /\ proc[p].pc = "done"
         /\ proc[p].statusCode = StatusBadRequest
         /\ proc[p].message = "invalid CSV: CSV header does not match expected format"
         /\ NoSideEffect(p)

C8_Witness ==
  \E p \in Procs :
    /\ DoneImport(p)
    /\ proc[p].info.headerMismatch
    /\ proc[p].info.dataLines > 0
    /\ ~proc[p].info.malformedRow
    /\ proc[p].statusCode = StatusBadRequest

\* C9: an import of a valid header without data rows returns 400 with the
\* message "CSV contains no card rows", which no malformed input gets, and
\* changes neither store nor images.
C9_HeaderOnlyRejectedAsEmpty ==
  \A p \in Procs :
    /\ (InImport(p) /\ proc[p].info.headerOnly)
         => /\ proc[p].pc = "done"
            /\ proc[p].statusCode = StatusBadRequest
            /\ proc[p].message = EmptyCSVMessage
            /\ proc[p].message \notin InvalidCSVMessages
            /\ NoSideEffect(p)
    /\ (DoneImport(p) /\ (proc[p].info.headerMismatch \/ proc[p].info.malformedRow))
         => proc[p].message # EmptyCSVMessage

C9_Witness ==
  \E p \in Procs :
    /\ DoneImport(p)
    /\ proc[p].info.headerOnly
    /\ proc[p].message = EmptyCSVMessage
    /\ Len(cards) > 0

\* C10: a store failure (an injected fault, or a statement the store
\* refuses) ends the import at once with 500 "database error"; the rows up
\* to the failing one are the only ones examined, and the records inserted
\* for the rows before it stay in the store.
C10_StoreErrorAbortsWithoutRollback ==
  \A p \in Procs :
    InImport(p) =>
      LET pr == proc[p] IN
      /\ pr.faults > 0
           => pr.pc = "done" /\ pr.statusCode = StatusInternalServerError
              /\ pr.faults = 1
      /\ (pr.pc = "done" /\ pr.statusCode = StatusInternalServerError)
           => /\ pr.message = "database error"
              /\ pr.idx \in 1..Len(pr.rows)
              /\ pr.existsCalls + pr.skippedCSVCount = pr.idx
              /\ pr.insertCalls <= pr.idx
              /\ pr.insertedCount <= pr.idx - 1
              /\ KeepsRecordsOf(p)
              /\ Len(cards) = Len(pr.cardsBefore) + pr.insertedCount
              /\ \A i \in (Len(pr.cardsBefore) + 1)..Len(cards) :
                   cards[i].Name \in RowNames(SubSeq(pr.rows, 1, pr.idx - 1))

C10_Witness ==
  \E p \in Procs :
    /\ DoneImport(p)
    /\ proc[p].statusCode = StatusInternalServerError
    /\ proc[p].faults = 1
    /\ proc[p].insertedCount >= 1
    /\ Len(cards) > Len(proc[p].cardsBefore)

\* The ways the image step of a row ends without an image.
AcqFailures ==
  {"no path", "stat failed", "no url", "download failed"}

\* The record importCards adds for the row it is at, given the image path.
RecordFor(p, imagePath) ==
  LET row == proc[p].rows[proc[p].idx]
  IN Card(Len(cards) + 1, cardCSVToName(row), imagePath, 0,
          mainboardInt(IsMainboard(row)))

\* After the insert of the current row: the next row, or success.
GoesOn(p) ==
  IF proc[p].idx < Len(proc[p].rows)
  THEN proc'[p].pc = "check" /\ proc'[p].idx = proc[p].idx + 1
  ELSE proc'[p].pc = "done" /\ proc'[p].statusCode = StatusNoContent

C11_Step(p) ==
  LET pr == proc[p]
      nx == proc'[p]
  IN /\ (pr.pc \in {"stat", "wait", "fetch"} /\ nx # pr)
          => /\ nx.pc \in {"wait", "fetch", "insert"}
             /\ cards' = cards
             /\ (nx.pc = "insert" /\ nx.acq \in AcqFailures) => nx.imagePath = ""
     /\ (pr.pc = "insert" /\ pr.acq \in AcqFailures /\ nx # pr
           /\ nx.faults = pr.faults)
          => /\ cards' = Append(cards, RecordFor(p, ""))
             /\ nx.insertedCount = pr.insertedCount + 1
             /\ GoesOn(p)

\* C11: no step of the image acquisition ends the import or touches the
\* store; when the acquisition of a row fails (path or URL not buildable,
\* stat error, request error, non-200 status, directory, file or copy
\* error) the row goes to the insert with an empty image path, and unless
\* the store itself fails the record is added with an empty image and the
\* import goes on with the next row or returns success.
C11_FailedImageStillInserts == [][\A p \in Procs : C11_Step(p)]_vars

C11_Witness ==
  \E p \in Procs :
    /\ proc[p].op = "import" /\ proc[p].pc = "check" /\ proc[p].idx = 2
    /\ proc[p].fetches = 1
    /\ proc[p].imagePath = ""
    /\ files = proc[p].filesBefore
    /\ proc[p].insertedCount = 1
    /\ cards[Len(cards)].Image = ""
    /\ cards[Len(cards)].Name = cardCSVToName(proc[p].rows[1])

\* The local image path of the row the import is at.
RowPath(p) ==
  buildImageFilePath(proc[p].imagesDir, proc[p].rows[proc[p].idx].Set,
                     proc[p].rows[proc[p].idx].CardNumber)

\* What the import does with a new card whose image file is on disk.
UsesFileOnDisk(p) ==
  LET pr == proc[p]
      nx == proc'[p]
  IN /\ nx.pc = "insert"
     /\ nx.imagePath = RowPath(p)
     /\ nx.fetches = pr.fetches /\ nx.waits = pr.waits
     /\ files' = files

InsertsCachedPath(p) ==
  LET pr == proc[p]
      nx == proc'[p]
  IN (pr.pc = "insert" /\ pr.acq = "cached" /\ nx # pr /\ nx.faults = pr.faults)
       => /\ cards' = Append(cards, RecordFor(p, pr.filePath))
          /\ pr.filePath = RowPath(p)
          /\ files' = files
          /\ nx.fetches = pr.fetches

\* C12 as stated: whenever a file exists at the local image path of a new
\* card, the import fetches nothing, leaves the file as it is and inserts
\* the card with that path.
C12_ExistingFileAlwaysUsed ==
  [][\A p \in Procs :
       /\ (proc[p].pc = "stat" /\ proc'[p] # proc[p]
             /\ RowPath(p) # ErrPath /\ RowPath(p) \in DOMAIN files)
            => UsesFileOnDisk(p)
       /\ InsertsCachedPath(p)]_vars

\* C12, amended: whenever os.Stat finds a file at the local image path of a
\* new card, the import fetches nothing, does not wait, leaves the file as
\* it is and inserts the card with that path; when os.Stat fails with
\* another error the file is left alone as well, and nothing is fetched.
C12_StatFoundFileIsUsed ==
  [][\A p \in Procs :
       /\ (proc[p].pc = "stat" /\ proc'[p] # proc[p]
             /\ RowPath(p) # ErrPath /\ RowPath(p) \in DOMAIN files)
            => IF proc'[p].acq = "stat failed"
               THEN /\ files' = files
                    /\ proc'[p].fetches = proc[p].fetches
                    /\ proc'[p].pc = "insert"
               ELSE UsesFileOnDisk(p)
       /\ InsertsCachedPath(p)]_vars

C12_Witness ==
  \E p \in Procs :
    /\ DoneImport(p) /\ proc[p].insertedCount >= 1
    /\ proc[p].fetches = 0
    /\ cards[Len(cards)].Image = proc[p].filePath
    /\ proc[p].filePath \in DOMAIN proc[p].filesBefore
    /\ files = proc[p].filesBefore

C13_Counts(p) ==
  LET pr == proc[p]
  IN /\ pr.pc = "fetch" => pr.waits = pr.downloadCount
     /\ pr.pc = "wait" => pr.downloadCount > 0 /\ pr.waits = pr.downloadCount - 1
     /\ pr.pc \notin {"fetch", "wait"} => pr.waits = Max(pr.downloadCount - 1, 0)

C13_Step(p) ==
  LET pr == proc[p]
      nx == proc'[p]
  IN /\ (pr.pc = "stat" /\ nx.pc = "fetch")
          => pr.downloadCount = 0 /\ nx.waits = 0
     /\ (pr.pc = "stat" /\ nx.pc = "wait") => pr.downloadCount > 0
     /\ (pr.pc = "wait" /\ nx # pr)
          => nx.pc = "fetch" /\ nx.waits = pr.waits + 1
     /\ (pr.pc # "wait" /\ nx # pr /\ nx.op = "import" /\ pr.op = "import"
           /\ pr.pc \notin {"done", "idle"})
          => nx.waits = pr.waits
     /\ (nx # pr /\ \/ pr.pc = "stat" /\ nx.acq = "cached"
                    \/ pr.pc = "insert" /\ pr.acq = "cached")
          => nx.waits = pr.waits /\ nx.downloadCount = pr.downloadCount

\* C13: within one import the first download attempt starts without a
\* wait, every later one starts right after one wait of its own (the count
\* of waits is the count of attempts made so far), and a row whose image is
\* found on disk changes neither the count of waits nor the count of
\* attempts that decides whether a later row waits.
C13_WaitBeforeLaterDownloads ==
  /\ [](\A p \in Procs : InImport(p) => C13_Counts(p))
  /\ [][\A p \in Procs : C13_Step(p)]_vars

C13_Witness ==
  \E p \in Procs :
    /\ Succeeded(p)
    /\ Len(proc[p].rows) >= 2
    /\ proc[p].downloadCount = 2 /\ proc[p].waits = 1 /\ proc[p].fetches = 2

\* The name of section "display name": the card name, followed by ", " and
\* the title unless the title is empty or white space.
NameAsSpecified(card) ==
  IF card.CardTitle \in {"", " ", "  "} THEN card.CardName
  ELSE card.CardName \o ", " \o card.CardTitle

\* C20: for every row the import examines, the key it looks up in its seen
\* set and in the store, and the name of the record it inserts, is the card
\* name alone when the title is empty or white space and card name, ", ",
\* title otherwise.
C20_DisplayName ==
  \A p \in Procs :
    InImport(p) =>
      LET pr == proc[p]
          examined == IF pr.pc = "check" THEN pr.idx - 1 ELSE pr.idx
          expected == {NameAsSpecified(pr.rows[i]) : i \in 1..examined}
      IN /\ examined >= 1 => pr.name = NameAsSpecified(pr.rows[examined])
         /\ pr.seen = expected
         /\ \A i \in (Len(pr.cardsBefore) + 1)..Len(cards) :
              cards[i].Name \in expected
         /\ Succeeded(p)
              => \A n \in expected : \E i \in 1..Len(cards) : cards[i].Name = n

C20_Witness ==
  \E p \in Procs :
    /\ Succeeded(p) /\ proc[p].insertedCount = 2
    /\ \E i \in 1..Len(cards) : cards[i].Name = "Rey"
    /\ \E i \in 1..Len(cards) : cards[i].Name = "Han, Solo"
    /\ \E i \in 1..Len(proc[p].rows) : proc[p].rows[i].CardTitle = " "

Answer(p, op) ==
  proc[p].pc = "done" /\ proc[p].op = op /\ proc[p].err = ""

\* The threshold of a stored row.
BelowMinimum(row) ==
  \/ row.Mainboard # 0 /\ row.Owned < 6
  \/ row.Mainboard = 0 /\ row.Owned < 3

\* C14: the wishlist answered for a query holds, in table order and once
\* each, exactly the records that pass the name filter and are below their
\* minimum: 6 owned for a mainboard card, 3 for another.
C14_WishlistSelection ==
  \A p \in Procs :
    Answer(p, "wishlist") =>
      LET ids == {proc[p].result[i].Card.ID : i \in 1..Len(proc[p].result)}
      IN /\ ids = {i \in 1..Len(cards) :
                     NameMatches(cards[i].Name, proc[p].query) /\ BelowMinimum(cards[i])}
         /\ Cardinality(ids) = Len(proc[p].result)
         /\ \A i \in 1..Len(proc[p].result) :
              proc[p].result[i].Card = ScanCard(cards[proc[p].result[i].Card.ID])

C14_Witness ==
  \E p \in Procs :
    /\ Answer(p, "wishlist") /\ proc[p].query = "a"
    /\ Len(cards) = 2 /\ Len(proc[p].result) = 1
    /\ \A i \in 1..Len(cards) : NameMatches(cards[i].Name, "")
    /\ \E i \in 1..Len(cards) :
         /\ cards[i].Name = "Han" /\ cards[i].Mainboard = 1 /\ cards[i].Owned = 5
    /\ \E i \in 1..Len(cards) :
         /\ cards[i].Name = "Rey" /\ cards[i].Mainboard = 0 /\ cards[i].Owned = 2

\* C15: every wishlist entry carries 6 - owned for a mainboard card and
\* 3 - owned for another, which is at least 1; a card that is not mainboard
\* is listed with deficit 1 when it has 2 copies and not listed with 3.
C15_Deficit ==
  \A p \in Procs :
    Answer(p, "wishlist") =>
      /\ \A i \in 1..Len(proc[p].result) :
           LET entry == proc[p].result[i]
           IN /\ entry.Deficit = (IF entry.Card.Mainboard THEN 6 ELSE 3) - entry.Card.Owned
              /\ entry.Deficit >= 1
              /\ entry.Card.Owned = cards[entry.Card.ID].Owned
      /\ \A j \in 1..Len(cards) :
           (cards[j].Mainboard = 0 /\ NameMatches(cards[j].Name, proc[p].query))
             => /\ cards[j].Owned = 2
                     => \E i \in 1..Len(proc[p].result) :
                          /\ proc[p].result[i].Card.ID = j
                          /\ proc[p].result[i].Deficit = 1
                /\ cards[j].Owned = 3
                     => \A i \in 1..Len(proc[p].result) : proc[p].result[i].Card.ID # j

C15_Witness ==
  \E p \in Procs :
    /\ Answer(p, "wishlist") /\ proc[p].again
    /\ Len(proc[p].result) = 1
    /\ proc[p].result[1].Deficit = 1 /\ ~proc[p].result[1].Card.Mainboard
    /\ \E j \in 1..Len(cards) : cards[j].Mainboard = 0 /\ cards[j].Owned = 3

\* C16: a search or wishlist call leaves the table as it was; sent again
\* with no write in between it gives the answer it gave before; and a query
\* that selects no record is answered with an empty sequence, not an error,
\* whenever the store answers.
C16_QueriesReadOnly ==
  \A p \in Procs :
    (proc[p].pc = "done" /\ proc[p].op \in {"search", "wishlist"}) =>
      /\ cards = proc[p].cardsBefore
      /\ (proc[p].again /\ proc[p].err = "") => proc[p].result = proc[p].first
      /\ \A fault \in BOOLEAN :
           LET res == RunQuery(proc[p].op, proc[p].query, fault)
           IN /\ res.err = "" <=> ~fault
              /\ (~fault /\ proc[p].err = "") => res.result = proc[p].result
      /\ (proc[p].err = ""
            /\ \A i \in 1..Len(cards) : ~NameMatches(cards[i].Name, proc[p].query))
           => proc[p].result = <<>>

C16_Witness ==
  \E p \in Procs :
    /\ Answer(p, "search") /\ proc[p].again
    /\ proc[p].query = "x" /\ proc[p].result = <<>>
    /\ Len(cards) = 2
    /\ \E i \in 1..Len(cards) : cards[i].Owned > 0

Migrated(p) == proc[p].pc = "done" /\ proc[p].op = "migrate"

\* Every row that was there is still there, with every value it had.
RowsPreserved(p) ==
  /\ Len(cards) = Len(proc[p].cardsBefore)
  /\ \A i \in 1..Len(cards) :
       \A f \in DOMAIN proc[p].cardsBefore[i] : cards[i][f] = proc[p].cardsBefore[i][f]

ColumnNames(sch) == [i \in 1..Len(sch.columns) |-> sch.columns[i].name]

\* C17: every RunMigrations call in which no statement fails returns nil
\* and ends in the schema id, name, image, owned, mainboard with every row
\* and value kept, whatever ran before; on a migrated database it changes
\* nothing at all, and so would one more call; and a call returns an error
\* only when one of its own statements failed.
C17_MigrationsIdempotent ==
  \A p \in Procs :
    Migrated(p) =>
      /\ proc[p].err # ""
           => /\ proc[p].fault # "none"
              /\ proc[p].stmts[Len(proc[p].stmts)] = proc[p].fault
      /\ proc[p].err = ""
           => /\ schema = MigratedSchema
              /\ ColumnNames(schema) = <<"id", "name", "image", "owned", "mainboard">>
              /\ RowsPreserved(p)
              /\ RunMigrations(Database(schema, cards), "none")
                   = Executed("", Database(schema, cards), <<"create", "table_info">>)
      /\ proc[p].schemaBefore = MigratedSchema
           => /\ proc[p].err = "" <=> proc[p].fault \in {"none", "alter"}
              /\ schema = proc[p].schemaBefore
              /\ cards = proc[p].cardsBefore

C17_Witness ==
  \E p \in Procs :
    /\ Migrated(p) /\ proc[p].err = ""
    /\ proc[p].schemaBefore = MigratedSchema
    /\ Len(cards) = 2
    /\ \E i \in 1..Len(cards) : cards[i].Mainboard = 0 /\ cards[i].Owned > 0

\* C18: a RunMigrations call that finds the cards table without the
\* mainboard column and succeeds keeps the number of rows and each row's
\* id, name, image and owned, and each of those rows is then read as
\* mainboard = true; a row inserted afterwards by a statement that names no
\* mainboard value is read as mainboard = true as well.
C18_LegacyRowsAreMainboard ==
  \A p \in Procs :
    /\ (Migrated(p) /\ proc[p].err = "")
         => /\ Len(cards) = Len(proc[p].cardsBefore)
            /\ \A i \in 1..Len(proc[p].cardsBefore) :
                 LET before == proc[p].cardsBefore[i]
                     read == GetCardByID(Database(schema, cards), i)
                 IN /\ read.err = ErrNone
                    /\ read.card.ID = before.ID /\ read.card.Name = before.Name
                    /\ read.card.Image = before.Image
                    /\ read.card.Owned = before.Owned
                    /\ read.card.Mainboard = IF "Mainboard" \in DOMAIN before
                                             THEN before.Mainboard # 0 ELSE TRUE
    /\ (proc[p].pc = "done" /\ proc[p].op = "insert without mainboard"
          /\ proc[p].err = "" /\ HasColumn(schema, "mainboard"))
         => LET read == GetCardByID(Database(schema, cards), proc[p].id)
            IN /\ read.err = ErrNone
               /\ read.card.Mainboard
               /\ read.card.Owned = 0
               /\ Len(cards) = Len(proc[p].cardsBefore) + 1

C18_Witness ==
  \E p \in Procs :
    /\ Migrated(p) /\ proc[p].err = ""
    /\ ~HasColumn(proc[p].schemaBefore, "mainboard")
    /\ Len(proc[p].cardsBefore) = 2
    /\ \E i \in 1..Len(cards) : cards[i].Owned > 0 /\ cards[i].Mainboard = 1

NoRepeat(stmts) == \A i, j \in 1..Len(stmts) : i # j => stmts[i] # stmts[j]

\* C19: after a call that created the table and failed to add the column,
\* a later call in which no statement fails returns nil, adds the column and
\* ends in the schema of an uninterrupted run, with the rows inserted in
\* between kept; a call whose statement fails returns that error after
\* running each statement at most once, and leaves what earlier statements
\* did.
C19_PartialMigrationRetryable ==
  \A p \in Procs :
    Migrated(p) =>
      /\ NoRepeat(proc[p].stmts)
      /\ (proc[p].schemaBefore = CreatedSchema /\ proc[p].fault = "none")
           => /\ proc[p].err = ""
              /\ proc[p].stmts = <<"create", "table_info", "alter">>
              /\ schema = RunMigrations(Database(NoSchema, <<>>), "none").db.schema
              /\ RowsPreserved(p)
      /\ (proc[p].fault = "alter" /\ ~HasColumn(proc[p].schemaBefore, "mainboard"))
           => /\ proc[p].err = "add mainboard column: alter table"
              /\ schema = CreatedSchema
              /\ cards = proc[p].cardsBefore
      /\ proc[p].fault = "create"
           => /\ proc[p].err = "create cards table"
              /\ proc[p].stmts = <<"create">>
              /\ schema = proc[p].schemaBefore /\ cards = proc[p].cardsBefore
      /\ proc[p].fault = "table_info"
           => /\ proc[p].err = "add mainboard column: query table info"
              /\ proc[p].stmts = <<"create", "table_info">>
              /\ cards = proc[p].cardsBefore

C19_Witness ==
  \E p \in Procs :
    /\ Migrated(p) /\ proc[p].err = "" /\ proc[p].fault = "none"
    /\ proc[p].schemaBefore = CreatedSchema
    /\ schema = MigratedSchema
    /\ Len(cards) >= 1

\* A served import request of either endpoint that reached importCards.
ServedImport(p) == proc[p].pc = "done" /\ "marked" \in DOMAIN proc[p]

\* The body starts with the three bytes of the UTF-8 byte-order mark (the
\* text after the prefix holds no byte of the mark).
StartsWithMark(pre) == Len(pre) >= Len(utf8BOM) /\ SubSeq(pre, 1, Len(utf8BOM)) = utf8BOM

\* importCards returned for the body what it would have returned for the
\* body behind a byte-order mark, and left the same records.
SameWithMark(p) ==
  /\ proc[p].marked.statusCode = proc[p].returned.statusCode
  /\ proc[p].marked.message = proc[p].returned.message
  /\ proc[p].marked.table = cards

\* C21 as stated: for every body X the import of the byte-order mark
\* followed by X ends as the import of X from the same store state (same
\* error or same records), and a body that does not start with the mark
\* loses no byte to the BOM step.
C21_BOMPrefixIgnored ==
  \A p \in Procs :
    ServedImport(p) =>
      /\ SameWithMark(p)
      /\ ~StartsWithMark(proc[p].pre) => proc[p].discarded = 0

\* C21, amended: for every body X that does not itself start with the
\* byte-order mark, the import of the mark followed by X ends as the import
\* of X from the same store state (same error or same records), and the BOM
\* step takes no byte from X; from a body that starts with the mark the BOM
\* step takes exactly the three bytes of one mark.
C21_OneBOMIgnored ==
  \A p \in Procs :
    ServedImport(p) =>
      IF StartsWithMark(proc[p].pre)
      THEN proc[p].discarded = Len(utf8BOM)
      ELSE SameWithMark(p) /\ proc[p].discarded = 0

C21_Witness ==
  \E p \in Procs :
    /\ ServedImport(p)
    /\ proc[p].pre = <<>>
    /\ proc[p].returned.statusCode = 0
    /\ proc[p].marked.statusCode = 0
    /\ Len(cards) > Len(proc[p].cardsBefore)
    /\ proc[p].marked.table = cards

\* The records added to the table since the call of p began.
NewRecords(p) == (Len(proc[p].cardsBefore) + 1)..Len(cards)

\* C22: every record an import has added, while the import runs and when it
\* has returned, has owned = 0, whatever the Owned Count and Group Owned
\* Count columns of its row hold.
C22_InsertedWithOwnedZero ==
  \A p \in Procs :
    InImport(p) => \A i \in NewRecords(p) : cards[i].Owned = 0

C22_Witness ==
  \E p \in Procs :
    /\ Succeeded(p)
    /\ proc[p].rows[1].OwnedCount = "3"
    /\ proc[p].rows[1].GroupOwnedCount = "3"
    /\ \E i \in NewRecords(p) :
         /\ cards[i].Name = cardCSVToName(proc[p].rows[1])
         /\ cards[i].Owned = 0

\* The flag of section "mainboard derivation": leader and base cards are
\* not mainboard cards, every other card is.
FlagOfType(cardType) == cardType \notin {"Leader", "Base"}

ContainsFold(name, query) ==
  LET text == Chars(name)
      part == Chars(query)
  IN \E o \in 0..(Len(text) - Len(part)) :
       \A k \in 1..Len(part) : Lower(text[o + k]) = Lower(part[k])

\* C24: SearchCards answers with exactly the records whose name contains
\* the query as a case-insensitive substring, the wishlist with exactly
\* those of them that are below their minimum; an empty query selects by
\* name every record.
C24_SubstringSelection ==
  \A p \in Procs :
    /\ Answer(p, "search") =>
         {proc[p].result[i].ID : i \in 1..Len(proc[p].result)}
           = {i \in 1..Len(cards) : ContainsFold(cards[i].Name, proc[p].query)}
    /\ Answer(p, "wishlist") =>
         {proc[p].result[i].Card.ID : i \in 1..Len(proc[p].result)}
           = {i \in 1..Len(cards) :
                ContainsFold(cards[i].Name, proc[p].query) /\ BelowMinimum(cards[i])}

\* The owned count call of p has returned without error.
Adjusted(p, op) ==
  proc[p].pc = "done" /\ proc[p].op = op /\ proc[p].err = ErrNone

\* The table differs from the one before the call of p at most in the owned
\* count of record id.
OnlyOwnedOf(p, id) ==
  /\ Len(cards) = Len(proc[p].cardsBefore)
  /\ \A j \in 1..Len(cards) :
       IF j = id
       THEN [cards[j] EXCEPT !.Owned = 0] = [proc[p].cardsBefore[j] EXCEPT !.Owned = 0]
       ELSE cards[j] = proc[p].cardsBefore[j]

\* C25: a successful IncrementCardOwned(id) leaves owned of record id one
\* higher, a successful DecrementCardOwned(id) on a positive owned one
\* lower; name, image and mainboard of the record and every other record
\* stay as they were, and DecrementCardOwned(id) after the increment gives
\* back the table from before it.
C25_OwnedChangesByOne ==
  \A p \in Procs :
    LET id == proc[p].id
        before == proc[p].cardsBefore
    IN /\ Adjusted(p, "increment") =>
            /\ OnlyOwnedOf(p, id)
            /\ cards[id].Owned = before[id].Owned + 1
            /\ DecrementCardOwned(cards, id) = [err |-> ErrNone, table |-> before]
       /\ (Adjusted(p, "decrement") /\ before[id].Owned > 0) =>
            /\ OnlyOwnedOf(p, id)
            /\ cards[id].Owned = before[id].Owned - 1

C25_Witness ==
  \E p \in Procs :
    /\ Adjusted(p, "increment")
    /\ proc[p].id = 1 /\ Len(cards) = 2
    /\ proc[p].cardsBefore[1].Owned = 2 /\ cards[1].Owned = 3
    /\ cards[2] = proc[p].cardsBefore[2]

\* The id path values that are a positive integer, and the integer.
PositiveIDs == {"1", "2", "9"}
IDOf(rawID) == CASE rawID = "1" -> 1 [] rawID = "2" -> 2 [] rawID = "9" -> 9

StoreCall(p) ==
  proc[p].pc = "done"
  /\ proc[p].op \in {"GetCardByID", "IncrementCardOwned", "DecrementCardOwned"}

CardRequest(p) ==
  proc[p].pc = "done"
  /\ proc[p].op \in {"GET /cards/{id}", "POST /cards/{id}/increment",
                     "POST /cards/{id}/decrement"}

\* C26: GetCardByID, IncrementCardOwned and DecrementCardOwned answer an
\* id <= 0 with the validation error and a positive id no record has with
\* ErrCardNotFound, and then leave the table as it was.  The handlers
\* answer a missing, non-integer or non-positive id with 400 without a
\* store call, the id of no record with 404, both without a change, and an
\* increment or decrement of an existing record with 204.
C26_IDErrors ==
  \A p \in Procs :
    /\ StoreCall(p) =>
         LET known == proc[p].id \in 1..Len(proc[p].cardsBefore)
         IN /\ proc[p].id <= 0 => proc[p].err = ErrInvalidID
            /\ (proc[p].id > 0 /\ ~known) => proc[p].err = ErrCardNotFound
            /\ known => proc[p].err = ErrNone
            /\ ~known => cards = proc[p].cardsBefore
            /\ ErrInvalidID # ErrCardNotFound
    /\ CardRequest(p) =>
         IF proc[p].rawID \notin PositiveIDs
         THEN /\ proc[p].response.statusCode = StatusBadRequest
              /\ proc[p].storeCalls = 0
              /\ cards = proc[p].cardsBefore
         ELSE IF IDOf(proc[p].rawID) \notin 1..Len(proc[p].cardsBefore)
              THEN /\ proc[p].response.statusCode = 404
                   /\ cards = proc[p].cardsBefore
              ELSE proc[p].response.statusCode =
                     IF proc[p].op = "GET /cards/{id}" THEN 200 ELSE 204

C26_Witness ==
  \E p \in Procs :
    /\ CardRequest(p) /\ proc[p].op = "POST /cards/{id}/decrement"
    /\ proc[p].rawID = "2" /\ Len(cards) = 1
    /\ proc[p].response.statusCode = 404
    /\ cards[1].Owned = 3

\* A served request of the form endpoint that did not reach importCards.
FormRejected(p) ==
  proc[p].pc = "done" /\ proc[p].op = "import/html" /\ "form" \in DOMAIN proc[p]

\* C27: both import endpoints answer an unreadable CSV and a CSV without
\* card rows with 400 and an import stopped by a store error with 500; an
\* import that went through is answered with 204 by the raw-body endpoint
\* and with 200 by the form endpoint.  The HX-Trigger header is
\* cardsImported on the 200 of the form endpoint and absent from every
\* other response; the records are those importCards left.
C27_ImportResponses ==
  \A p \in Procs :
    /\ ServedImport(p) =>
         LET pr == proc[p]
             ok == IF pr.op = "import" THEN 204 ELSE 200
         IN /\ (pr.parseErr # "" \/ pr.rows = <<>>) =>
                 pr.response.statusCode = 400 /\ cards = pr.cardsBefore
            /\ pr.response.statusCode \in {400, 500, ok}
            /\ pr.response.statusCode = ok <=> pr.returned.statusCode = 0
            /\ pr.response.statusCode # ok =>
                 /\ pr.response.statusCode = pr.returned.statusCode
                 /\ pr.response.message = pr.returned.message
            /\ pr.response.statusCode = 500 =>
                 pr.parseErr = "" /\ pr.rows # <<>>
            /\ pr.response.hxTrigger =
                 IF pr.op = "import/html" /\ pr.returned.statusCode = 0
                 THEN "cardsImported" ELSE ""
    /\ FormRejected(p) =>
         /\ proc[p].response.statusCode = 400
         /\ proc[p].response.hxTrigger = ""
         /\ cards = proc[p].cardsBefore

C27_Witness ==
  \E p \in Procs :
    /\ ServedImport(p) /\ proc[p].op = "import/html"
    /\ proc[p].response.statusCode = 200
    /\ proc[p].response.hxTrigger = "cardsImported"
    /\ Len(cards) = Len(proc[p].cardsBefore) + 2

NameCall(p, op) == proc[p].pc = "done" /\ proc[p].op = op

\* C28: no record of the store has an empty name: InsertCard with an empty
\* name returns an error and adds nothing, CardExistsByName with an empty
\* name returns an error, and no import adds a record without a name.
C28_NoEmptyName ==
  /\ \A i \in 1..Len(cards) : cards[i].Name # ""
  /\ \A p \in Procs :
       /\ (NameCall(p, "InsertCard") /\ proc[p].name = "") =>
            proc[p].err /\ cards = proc[p].cardsBefore
       /\ (NameCall(p, "CardExistsByName") /\ proc[p].name = "") => proc[p].err
       /\ (NameCall(p, "InsertCard") /\ ~proc[p].err) =>
            /\ Len(cards) = Len(proc[p].cardsBefore) + 1
            /\ cards[Len(cards)].Name = proc[p].name

C28_Witness ==
  \E p \in Procs :
    /\ NameCall(p, "InsertCard") /\ proc[p].name = "" /\ proc[p].err
    /\ Len(cards) = 1 /\ cards = proc[p].cardsBefore
    /\ cards[1].Name = "Rey"

\* The rows the loop of importCards has taken up so far.
Examined(p) == IF proc[p].pc = "check" THEN proc[p].idx - 1 ELSE proc[p].idx

\* The import is between the existence check and the insert of a row.
Acquiring(p) == proc[p].pc \in {"stat", "wait", "fetch", "insert"}

\* C29: an import is in the image step only for a row that is the first of
\* its name in the batch and whose name no record has; it has looked for at
\* most one file per row it did not skip, waited and fetched at most once
\* per file it looked for, and written nothing unless it fetched.  An
\* import of the same batch right after a successful one looks for no
\* file, waits for and fetches nothing, and leaves files and records alone.
C29_AcquisitionOnlyForNewCards ==
  \A p \in Procs :
    InImport(p) =>
      LET pr == proc[p] IN
      /\ Acquiring(p) =>
           /\ RecordsNamed(cards, pr.name) = {}
           /\ FirstIndex(pr.rows, pr.name) = pr.idx
      /\ pr.statCalls <= Examined(p) - pr.skippedCSVCount - pr.skippedDBCount
      /\ pr.waits <= pr.statCalls /\ pr.fetches <= pr.statCalls
      /\ pr.fetches = 0 => files = pr.filesBefore
      /\ pr.again =>
           /\ pr.statCalls = 0 /\ pr.waits = 0 /\ pr.fetches = 0
           /\ files = pr.filesBefore
           /\ pr.faults = 0 => cards = pr.cardsBefore

C29_Witness ==
  \E p \in Procs :
    /\ Succeeded(p) /\ ~proc[p].again
    /\ proc[p].skippedDBCount = 1 /\ proc[p].insertedCount = 1
    /\ proc[p].statCalls = 1 /\ proc[p].fetches = 1
    /\ files # proc[p].filesBefore

\* The rows before the one the import is at are done with: each was
\* skipped or its insert has returned.
EarlierRowsDone(p) ==
  /\ proc[p].insertedCount = proc[p].insertCalls
  /\ proc[p].insertedCount + proc[p].skippedCSVCount + proc[p].skippedDBCount
       = proc[p].idx - 1

\* C30: one row at a time, in CSV order: when a row is taken up every
\* earlier row was skipped or its insert has returned; a row is in the
\* image step only after its existence check and before its insert call,
\* it waits or fetches only after its cache check, and fetches only after
\* its wait when there is one; the records an import has added stand in the
\* order in which their names first appear in the CSV.
C30_RowsInOrder ==
  \A p \in Procs :
    (InImport(p) /\ proc[p].rows # <<>>) =>
      LET pr == proc[p] IN
      /\ pr.idx \in 1..Len(pr.rows)
      /\ pr.pc = "check" =>
           /\ EarlierRowsDone(p)
           /\ pr.existsCalls = pr.insertCalls + pr.skippedDBCount
      /\ Acquiring(p) =>
           /\ EarlierRowsDone(p)
           /\ pr.existsCalls = pr.insertCalls + pr.skippedDBCount + 1
      /\ pr.pc \in {"wait", "fetch"} => pr.statCalls = pr.insertCalls + 1
      /\ pr.pc = "fetch" => pr.waits = pr.downloadCount
      /\ pr.pc = "insert" => pr.statCalls \in {0, pr.insertCalls + 1}
      /\ Succeeded(p) =>
           pr.insertedCount + pr.skippedCSVCount + pr.skippedDBCount = Len(pr.rows)
      /\ \A i, j \in NewRecords(p) :
           i < j => /\ FirstIndex(pr.rows, cards[i].Name)
                         < FirstIndex(pr.rows, cards[j].Name)
                    /\ FirstIndex(pr.rows, cards[j].Name) <= Examined(p)

C30_Witness ==
  \E p \in Procs :
    /\ InImport(p) /\ proc[p].pc = "insert" /\ proc[p].idx = 2
    /\ proc[p].insertedCount = 1 /\ proc[p].existsCalls = 2
    /\ proc[p].waits = 1 /\ proc[p].fetches = 2 /\ proc[p].statCalls = 2
    /\ Len(cards) = Len(proc[p].cardsBefore) + 1
    /\ cards[Len(cards)].Name = cardCSVToName(proc[p].rows[1])


\* Claim C31: under non-concurrent use a local image path is written at most
\* once.  A download is only ever about to be made to a path that holds no
\* file, a file that was there when the call began is there unchanged while
\* the call runs, and each file the call has added came from a download of
\* its own; so once a download to a path has succeeded, no later row and no
\* later call downloads to that path or writes it again.
PathOfRow(p, i) ==
  buildImageFilePath(proc[p].imagesDir, proc[p].rows[i].Set,
                     proc[p].rows[i].CardNumber)

WrittenBy(p) == DOMAIN files \ DOMAIN proc[p].filesBefore

C31_PathWrittenOnce ==
  \A p \in DOMAIN proc :
    InImport(p) =>
      /\ proc[p].pc \in {"wait", "fetch"} => proc[p].filePath \notin DOMAIN files
      /\ \A path \in DOMAIN proc[p].filesBefore :
           path \in DOMAIN files /\ files[path] = proc[p].filesBefore[path]
      /\ Cardinality(WrittenBy(p)) <= proc[p].fetches

\* An import whose first row downloaded the image and whose second row, a new
\* card naming the same file, found it on disk and downloaded nothing.
C31_Witness ==
  \E p \in DOMAIN proc :
    /\ Succeeded(p)
    /\ Len(proc[p].rows) = 2
    /\ proc[p].insertedCount = 2
    /\ proc[p].statCalls = 2
    /\ proc[p].fetches = 1
    /\ PathOfRow(p, 1) = PathOfRow(p, 2)
    /\ PathOfRow(p, 1) \in WrittenBy(p)
    /\ files[PathOfRow(p, 1)] = "image"
    /\ \A i \in 1..Len(cards) :
         i > Len(proc[p].cardsBefore) => cards[i].Image = PathOfRow(p, 1)


\* Claim C32: for a fixed images directory the local image path is injective
\* in (set, cardNumber): two rows of a batch with different (set, cardNumber)
\* never name the same local file, and a new card that takes its image from
\* the disk never takes a file that an earlier row of the call with another
\* (set, cardNumber) named.
SamePair(a, b) == a.Set = b.Set /\ a.CardNumber = b.CardNumber

C32_PathInjective ==
  \A p \in DOMAIN proc :
    InImport(p) =>
      /\ \A i, j \in 1..Len(proc[p].rows) :
           (PathOfRow(p, i) # ErrPath /\ PathOfRow(p, i) = PathOfRow(p, j))
             => SamePair(proc[p].rows[i], proc[p].rows[j])
      /\ (proc[p].pc = "insert" /\ proc[p].acq = "cached")
           => \A i \in 1..(proc[p].idx - 1) :
                PathOfRow(p, i) = proc[p].filePath
                  => SamePair(proc[p].rows[i], proc[p].rows[proc[p].idx])


\* Claim C33: after an image acquisition that ended in failure no file is at
\* the card's local image path, so no record is ever given a partial or
\* empty file as its image.
C33_NoFileAfterFailedFetch ==
  /\ \A p \in DOMAIN proc :
       (InImport(p) /\ proc[p].pc = "insert" /\ proc[p].acq = "download failed")
         => proc[p].filePath \notin DOMAIN files
  /\ \A i \in 1..Len(cards) :
       cards[i].Image \in DOMAIN files => files[cards[i].Image] = "image"


\* Claim C34: when an import has returned, the number of rate-limit waits it
\* made is max(0, number of network fetches it issued - 1); a row for which no
\* fetch is issued neither waits nor makes a later row wait.
C34_WaitsMatchFetches ==
  \A p \in DOMAIN proc :
    DoneImport(p) =>
      proc[p].waits = (IF proc[p].fetches = 0 THEN 0 ELSE proc[p].fetches - 1)


\* Claim C35: an import of a batch the CSV normalizer accepted, during which
\* the store failed no statement, returns success, and afterwards the name of
\* every row of the batch is the name of exactly one record.
Accepted(p) == Len(proc[p].rows) > 0

C35_AcceptedBatchImported ==
  \A p \in DOMAIN proc :
    (DoneImport(p) /\ Accepted(p) /\ proc[p].faults = 0) =>
      /\ proc[p].statusCode = StatusNoContent
      /\ \A name \in RowNames(proc[p].rows) :
           Cardinality(RecordsNamed(cards, name)) = 1


\* Claim C36: when an import has returned with success its three counters
\* partition the batch.  Their sum is the number of data rows; inserted is the
\* number of records the call added, one for each name of the batch that no
\* record had; skipped-as-duplicate counts every row that repeats the name of
\* an earlier row, also when that earlier row was skipped as already in the
\* store; skipped-as-already-in-store counts the names of the batch that a
\* record had when the call began.
NamesBefore(p) ==
  {proc[p].cardsBefore[i].Name : i \in 1..Len(proc[p].cardsBefore)}

C36_CountersPartitionBatch ==
  \A p \in DOMAIN proc :
    Succeeded(p) =>
      LET pr == proc[p]
          names == RowNames(pr.rows)
      IN /\ pr.insertedCount + pr.skippedCSVCount + pr.skippedDBCount
              = Len(pr.rows)
         /\ pr.insertedCount = Len(cards) - Len(pr.cardsBefore)
         /\ pr.insertedCount = Cardinality(names \ NamesBefore(p))
         /\ pr.skippedDBCount = Cardinality(names \cap NamesBefore(p))
         /\ pr.skippedCSVCount = Len(pr.rows) - Cardinality(names)

\* A successful import of two rows with one name that a record already had:
\* the first row is counted as already in the store, the second as a
\* duplicate of the first.
C36_Witness ==
  \E p \in DOMAIN proc :
    /\ Succeeded(p)
    /\ Len(proc[p].rows) = 2
    /\ proc[p].rows[1] # proc[p].rows[2]
    /\ Cardinality(RowNames(proc[p].rows)) = 1
    /\ RowNames(proc[p].rows) \subseteq NamesBefore(p)
    /\ proc[p].skippedDBCount = 1
    /\ proc[p].skippedCSVCount = 1
    /\ proc[p].insertedCount = 0
    /\ cards = proc[p].cardsBefore


\* Claim C39: in the file-backed store the names of the collection stay
\* pairwise distinct.  A call of InsertSWUDBCard with a card whose derived
\* name is already in the collection returns nil and leaves the collection as
\* it was, the Owned counts included; any other call leaves it as it was or
\* appends one card under the derived name with Owned = 0; and no card of
\* type Base with rarity Common is in the collection.
CollectionNames(collection) ==
  {collection[i].Name : i \in 1..Len(collection)}

SWUDBURLOf(swudbCard) ==
  "https://swudb.com/card/" \o swudbCard.Set \o "/" \o swudbCard.CardNumber

FileAgrees ==
  IF StorePath \in DOMAIN files
  THEN files[StorePath] = MarshalCollection(cards)
  ELSE cards = <<>>

C40_IndexAndFileAgree ==
  \A p \in DOMAIN proc :
    (/\ proc[p].op \in {"InsertSWUDBCard", "InsertSWUDBCSV", "IncrementCardOwned",
                        "DecrementCardOwned", "Save"}
     /\ proc[p].err = "") =>
      /\ proc[p].names = [i \in 1..Len(cards) |-> cards[i].Name]
      /\ \A i \in 1..Len(cards) :
           LET found == Search(TheStore(p), Chars(cards[i].Name))
           IN found.err = "" /\ \E j \in 1..Len(found.results) : found.results[j] = cards[i]
      /\ FileAgrees
      /\ \A i \in 1..Len(cards) : cards[i].Owned >= 0


\* Claim C37: in the terminal UI, in every state that key and resize messages
\* lead to, cursorPosition is at least -1 and at most len(searchResults) - 1;
\* and an owned count changes only through a +, = , - or _ key that comes
\* while the cursor is on a result, and then only the count of that result's
\* card, by one.
CursorInRange(p) ==
  /\ proc[p].m.cursorPosition >= -1
  /\ proc[p].m.cursorPosition <= Len(proc[p].m.searchResults) - 1

OwnedChangeIsOfCursorCard(p) ==
  cards' # cards =>
    LET m == proc[p].m
        msg == proc'[p].msg
    IN /\ m.cursorPosition \in 0..(Len(m.searchResults) - 1)
       /\ msg.msg = "KeyMsg" /\ msg.Type = "KeyRunes"
       /\ msg.Runes \in {<<"+">>, <<"=">>, <<"-">>, <<"_">>}
       /\ \E i \in 1..Len(cards) :
            /\ cards[i].Name = m.searchResults[m.cursorPosition + 1].Name
            /\ cards' = [cards EXCEPT ![i].Owned =
                           IF msg.Runes \in {<<"+">>, <<"=">>} THEN @ + 1 ELSE @ - 1]

C37_CursorInRange ==
  /\ [](\A p \in DOMAIN proc : CursorInRange(p))
  /\ [][\A p \in DOMAIN proc : OwnedChangeIsOfCursorCard(p)]_vars

\* The + key came while the cursor was on the second of two results: that
\* card is owned once, the other card not at all.
C37_Witness ==
  \E p \in DOMAIN proc :
    /\ proc[p].msg = KeyMsg("KeyRunes", <<"+">>)
    /\ proc[p].cursorBefore = 1
    /\ proc[p].m.cursorPosition = 1
    /\ Len(proc[p].m.searchResults) = 2
    /\ proc[p].m.searchResults[2].Owned = 1
    /\ \A i \in 1..Len(cards) :
         cards[i].Owned = (IF cards[i].Name = proc[p].m.searchResults[2].Name
                           THEN 1 ELSE 0)

\* Claim C38: in the terminal UI the search input is focused exactly when
\* cursorPosition = -1; the search text, and with it the names of the result
\* list, changes only through a message that comes while cursorPosition = -1;
\* the cursor leaves the bar only by the down key, which blurs the input, and
\* comes back to -1 only by the up key, which focuses it again.
FocusedInBar(p) ==
  proc[p].m.searchInput.focus <=> proc[p].m.cursorPosition = -1

ResultNames(m) == [i \in 1..Len(m.searchResults) |-> m.searchResults[i].Name]

TextChangesInBar(p) ==
  LET m == proc[p].m
      n == proc'[p].m
  IN /\ (n.searchInput.value # m.searchInput.value \/ ResultNames(n) # ResultNames(m))
          => m.cursorPosition = -1 /\ n.cursorPosition = -1
     /\ (m.cursorPosition = -1 /\ n.cursorPosition # -1)
          => /\ proc'[p].msg = KeyMsg("KeyDown", <<>>)
             /\ n.cursorPosition = 0
             /\ ~n.searchInput.focus
     /\ (m.cursorPosition # -1 /\ n.cursorPosition = -1)
          => /\ proc'[p].msg = KeyMsg("KeyUp", <<>>)
             /\ m.cursorPosition = 0
             /\ n.searchInput.focus

C38_FocusFollowsCursor ==
  /\ [](\A p \in DOMAIN proc : FocusedInBar(p))
  /\ [][\A p \in DOMAIN proc : TextChangesInBar(p)]_vars

\* The up key brought the cursor from the first result back to the bar: the
\* input is focused again, the text and its results are still there.
C38_Witness ==
  \E p \in DOMAIN proc :
    /\ proc[p].msg = KeyMsg("KeyUp", <<>>)
    /\ proc[p].cursorBefore = 0
    /\ proc[p].m.cursorPosition = -1
    /\ proc[p].m.searchInput.focus
    /\ proc[p].m.searchInput.value # <<>>
    /\ Len(proc[p].m.searchResults) = 2

====
